---- MODULE Spec2Model ----
(***************************************************************************)
(* Model of the planetary surface tile manager of the D3D9 client          *)
(* (Orbitersdk/D3D9Client/TileMgr.cpp): the quadtree of tile descriptors,  *)
(* the per-frame LOD traversal (TileManager::Render / ProcessTile), the    *)
(* bounded request ring buffer (TileBuffer::LoadTileAsync) and the         *)
(* background loader (TileBuffer::LoadTile_ThreadProc).                    *)
(*                                                                         *)
(* A tile descriptor is identified by its position in the quadtree: the    *)
(* sequence of child slots (0..3) leading to it from a level-8 base tile.  *)
(* The tex/ltex fields are the pointer-sized words of the source: 0 is     *)
(* NULL (and archive index 0), small numbers are unresolved archive        *)
(* indices, NOTILE is the sentinel, and values from 65536 on are texture   *)
(* handles.                                                                *)
(***************************************************************************)
EXTENDS Integers, Sequences, FiniteSets, TLC

\* ------------------------------------------------------------------------
\* Bounds of the model

\* capacity of the request ring buffer (TileMgr.h; "small" in the source)
MAXQUEUE == 2

\* the manager's maximum resolution level (maxlvl): the quadtree below the
\* level-8 base tile is explored down to this level
maxlvl == 10

\* ------------------------------------------------------------------------
\* Program constants

\* (DWORD)-1, the largest value of a texture word; words are modelled
\* 31 bits wide, so the sentinel is the largest 31-bit value
NOTILE == 2147483647

TILESIZE == 32896

\* number of child slots of a descriptor (subtile[4], the 2x2 subdivision)
NSUB == 4

\* level of the base tiles the traversal starts from: min(level, 8)
STARTLVL == 8

\* ------------------------------------------------------------------------
\* Bit operations on the flag word

HasBit(f, b) == (f \div b) % 2 = 1

SetBit(f, b) == IF HasBit(f, b) THEN f ELSE f + b

ClrBit(f, b) == IF HasBit(f, b) THEN f - b ELSE f

NotLoaded(f) == HasBit(f, 128)

\* ((flag & 3) == 3) || (flag & 4)
WantsMask(f) == (f % 4 = 3) \/ HasBit(f, 4)

\* ------------------------------------------------------------------------
\* Texture words

\* a texture handle returned by the device for the payload read from
\* archive arch (0: <P>.tex, 1: <P>_tile.tex, 2: <P>_tile_lmask.tex) at ofs
Handle(arch, ofs) == 65536 + arch * 1048576 + ofs

IsHandle(v) == v >= 65536 /\ v < NOTILE

\* ------------------------------------------------------------------------
\* The quadtree positions

Slots == 0 .. (NSUB - 1)

RECURSIVE PathsOfLen(_)
PathsOfLen(k) ==
    IF k = 0 THEN { <<>> }
    ELSE { Append(p, s) : p \in PathsOfLen(k - 1), s \in Slots }

Nodes == UNION { PathsOfLen(k) : k \in 0 .. (maxlvl - STARTLVL) }

Root == <<>>

Child(n, s) == Append(n, s)

IsPrefix(a, n) == Len(a) <= Len(n) /\ SubSeq(n, 1, Len(a)) = a

Subtree(n) == { m \in Nodes : IsPrefix(n, m) }

\* ------------------------------------------------------------------------
\* Tile descriptors (TILEDESC) and the tile table of contents (TILEFILESPEC)

\* a slot of the tree holding no descriptor (the parent's subtile pointer
\* is NULL)
NoDesc == [live |-> FALSE, flag |-> 0, tex |-> 0, ltex |-> 0, cat |-> FALSE]

\* memset (td, 0, sizeof(TILEDESC)): the descriptor AddTile hands out
ZeroDesc == [live |-> TRUE, flag |-> 0, tex |-> 0, ltex |-> 0, cat |-> FALSE]

\* index of the modelled level-8 base tile in tiledesc: patchidx[7]
BaseIdx == 137

\* the records of <planet>_tile.bin; record 0 is the level-8 base tile,
\* subidx = 0 means "no child record"
TFS ==
    [ i \in 0 .. 4 |->
        CASE i = 0 -> [sidx |-> NOTILE, midx |-> NOTILE, flags |-> 0,
                       subidx |-> <<1, 2, 3, 0>>]
          [] i = 1 -> [sidx |-> 0, midx |-> NOTILE, flags |-> 1,
                       subidx |-> <<0, 0, 0, 0>>]
          [] i = 2 -> [sidx |-> 1, midx |-> 0, flags |-> 3,
                       subidx |-> <<0, 0, 0, 0>>]
          [] i = 3 -> [sidx |-> NOTILE, midx |-> NOTILE, flags |-> 1,
                       subidx |-> <<0, 4, 0, 0>>]
          [] OTHER -> [sidx |-> 2, midx |-> NOTILE, flags |-> 1,
                       subidx |-> <<0, 0, 0, 0>>] ]

\* the configurations a manager is constructed with: bPreloadTile, the
\* TOC format (tilever, 0 = old-style indices), bGlobalSpecular ||
\* bGlobalLights, and how many textures the preload archives are short of
Configs ==
    { [preload |-> FALSE, tilever |-> 0, speclights |-> TRUE, short |-> 0],
      [preload |-> TRUE, tilever |-> 0, speclights |-> TRUE, short |-> 0],
      [preload |-> TRUE, tilever |-> 0, speclights |-> TRUE, short |-> 1] }

\* the descriptor AddSubtileData writes for TOC record r
CatalogueDesc(r, c) ==
    LET f0 == IF c.speclights THEN r.flags ELSE 1
        f1 == SetBit(f0, 128)
        f2 == IF c.tilever = 0 THEN SetBit(f1, 64) ELSE f1
    IN [live |-> TRUE,
        flag |-> f2,
        tex |-> r.sidx,
        ltex |-> IF c.speclights /\ r.midx # NOTILE THEN r.midx ELSE 0,
        cat |-> TRUE]

\* TileManager::AddSubtileData: S = [t, nhitex, nhispec]
RECURSIVE AddSubtileData(_, _, _, _, _, _)
AddSubtileData(S, td, idx, sub, lvl, c) ==
    LET subidx == TFS[idx].subidx[sub + 1]
        r == TFS[subidx]
        bSubtiles == \E j \in 1 .. NSUB : r.subidx[j] # 0
        n == Child(td, sub)
        Step(X, j) == IF r.subidx[j + 1] # 0
                      THEN AddSubtileData(X, n, subidx, j, lvl + 1, c)
                      ELSE X
    IN IF (r.flags # 0 \/ bSubtiles) /\ lvl <= maxlvl
       THEN LET S1 == [S EXCEPT !.t[n] = CatalogueDesc(r, c)]
                S2 == IF bSubtiles
                      THEN Step(Step(Step(Step(S1, 0), 1), 2), 3)
                      ELSE S1
            IN [S2 EXCEPT !.nhitex = @ + 1,
                          !.nhispec = IF r.midx # NOTILE THEN @ + 1 ELSE @]
       ELSE S

\* the base tile after LoadPatchData (no mask file: flag 1) and
\* LoadTextures (tex = texbuf[i])
BaseDesc ==
    [live |-> TRUE, flag |-> 1, tex |-> Handle(0, BaseIdx), ltex |-> 0,
     cat |-> FALSE]

\* faulty variant of LoadTileData: a descriptor is made for each of the
\* four child slots of the base tile, whatever the catalogue declares
LoadTileData_AllSlots(c) ==
    LET S0 == [t |-> [n \in Nodes |->
                        IF n = Root THEN BaseDesc
                        ELSE IF Len(n) = 1 THEN ZeroDesc ELSE NoDesc],
               nhitex |-> 0, nhispec |-> 0]
        Step(X, j) == IF TFS[0].subidx[j + 1] # 0
                      THEN AddSubtileData(X, Root, 0, j, STARTLVL + 1, c)
                      ELSE X
    IN Step(Step(Step(Step(S0, 0), 1), 2), 3)

\* TileManager::LoadTileData for the modelled base tile
LoadTileData(c) ==
    LET S0 == [t |-> [n \in Nodes |-> IF n = Root THEN BaseDesc ELSE NoDesc],
               nhitex |-> 0, nhispec |-> 0]
        Step(X, j) == IF TFS[0].subidx[j + 1] # 0
                      THEN AddSubtileData(X, Root, 0, j, STARTLVL + 1, c)
                      ELSE X
    IN Step(Step(Step(Step(S0, 0), 1), 2), 3)

\* TileManager::AddSubtileTextures: S = [t, tbuf, mbuf]; tbuf and mbuf are
\* the sets of archive indices whose texture is still in the buffer
RECURSIVE AddSubtileTextures(_, _, _, _)
AddSubtileTextures(S, td, nt, nm) ==
    LET d == S.t[td]
        tidx == d.tex
        midx == d.ltex
        tex == IF tidx # NOTILE /\ tidx < nt /\ tidx \in S.tbuf
               THEN Handle(1, tidx) ELSE 0
        ltex == IF midx # NOTILE /\ midx < nm /\ midx \in S.mbuf
                THEN Handle(2, midx) ELSE 0
        S1 == [t |-> [S.t EXCEPT ![td] =
                         [d EXCEPT !.tex = tex, !.ltex = ltex,
                                   !.flag = ClrBit(d.flag, 128)]],
               tbuf |-> S.tbuf \ {tidx},
               mbuf |-> S.mbuf \ {midx}]
        Step(X, i) == IF Len(td) < maxlvl - STARTLVL /\ X.t[Child(td, i)].live
                      THEN AddSubtileTextures(X, Child(td, i), nt, nm)
                      ELSE X
    IN Step(Step(Step(Step(S1, 0), 1), 2), 3)

\* TileManager::PreloadTileTextures, called by LoadTextures when
\* bPreloadTile && nhitex
PreloadTileTextures(L, c) ==
    LET nt == IF L.nhitex > c.short THEN L.nhitex - c.short ELSE 0
        nm == L.nhispec
        S0 == [t |-> L.t, tbuf |-> 0 .. (nt - 1), mbuf |-> 0 .. (nm - 1)]
        Step(X, j) == IF X.t[Child(Root, j)].live
                      THEN AddSubtileTextures(X, Child(Root, j), nt, nm)
                      ELSE X
    IN Step(Step(Step(Step(S0, 0), 1), 2), 3).t

\* the descriptors of a freshly constructed manager
LoadTextures(c) ==
    LET L == LoadTileData(c)
    IN IF c.preload /\ L.nhitex > 0 THEN PreloadTileTextures(L, c) ELSE L.t

\* ------------------------------------------------------------------------
\* State

VARIABLES
    cfg,          \* the configuration the manager was constructed with
    tiles,        \* the descriptor at every position of the quadtree
    loadqueue,    \* TileBuffer::loadqueue[MAXQUEUE]
    queue_in,     \* TileBuffer::queue_in
    queue_out,    \* TileBuffer::queue_out
    nqueue,       \* TileBuffer::nqueue
    hQueueMutex,  \* owner of the queue mutex: "free", "render" or "loader"
    bRunThread,   \* TileBuffer::bRunThread
    bHoldThread,  \* TileBuffer::bHoldThread
    lpc,          \* position of the loader thread in LoadTile_ThreadProc
    qd,           \* the loader's copy of the head request (static qd)
    ld,           \* the loader's locals tex and mask, and the read's result
    rpc,          \* position of the render thread in Render
    tgtlvl,       \* RenderParam.tgtlvl of the frame in progress
    stack,        \* the ProcessTile calls that are descending
    nAcc,         \* history: number of requests LoadTileAsync accepted
    nPub,         \* history: number of publications
    lastPub,      \* history: acceptance number of the last publication
    lastReq,      \* history: the LoadTileAsync call of the last step
    delLog,       \* history: the DeleteTile calls of the last step
    draw,         \* history: the RenderTile call of the last step
    lastCall,     \* history: the last call of a function of the manager
                  \* outside the traversal, with its arguments
    lastRet       \* history: what that call computed

vars == <<cfg, tiles, loadqueue, queue_in, queue_out, nqueue, hQueueMutex,
          bRunThread, bHoldThread, lpc, qd, ld, rpc, tgtlvl, stack,
          nAcc, nPub, lastPub, lastReq, delLog, draw,
          lastCall, lastRet>>

queueVars == <<loadqueue, queue_in, queue_out, nqueue>>

loaderVars == <<lpc, qd, ld>>

renderVars == <<rpc, tgtlvl, stack>>

histVars == <<nAcc, nPub, lastPub>>

callVars == <<lastCall, lastRet>>

\* the variables of the running manager
mainVars == <<cfg, tiles, queueVars, hQueueMutex, bRunThread, bHoldThread,
              loaderVars, renderVars, histVars, lastReq, delLog, draw>>

\* no function outside the traversal has been called
NoCall == [op |-> "none"]

NoRet == [op |-> "none"]

\* ------------------------------------------------------------------------
\* The request queue

\* a QUEUEDESC: td is the descriptor pointer; st tells whether the pointer
\* is NULL, refers to a descriptor, or refers to a freed one; id is the
\* acceptance number of the request (history)
NullEntry == [td |-> Root, st |-> "null", id |-> 0]

\* the ring positions holding the pending requests, oldest first
Window(qout, nq) == [ i \in 1 .. nq |-> (i - 1 + qout) % MAXQUEUE ]

\* loadqueue[j].td == tile
SameTd(e, tile) == e.st = "ok" /\ e.td = tile

NoReq == [called |-> FALSE, td |-> Root, ok |-> FALSE]

\* the request tile is among the nq pending requests of the ring lq
InWindow(lq, qout, nq, tile) ==
    \E i \in 0 .. (nq - 1) : SameTd(lq[(i + qout) % MAXQUEUE], tile)

\* the queue record LoadTileAsync returns when it rejects the request
Rejected(Q) ==
    [ok |-> FALSE, loadqueue |-> Q.loadqueue, queue_in |-> Q.queue_in,
     queue_out |-> Q.queue_out, nqueue |-> Q.nqueue]

\* faulty variant of LoadTileAsync: the request is put in front of the
\* pending ones (a stack instead of a queue)
LoadTileAsync_Front(Q, tile, id) ==
    LET front == (Q.queue_out + MAXQUEUE - 1) % MAXQUEUE
    IN IF Q.nqueue = MAXQUEUE \/ InWindow(Q.loadqueue, Q.queue_out, Q.nqueue, tile)
       THEN Rejected(Q)
       ELSE [ok |-> TRUE,
             loadqueue |-> [Q.loadqueue EXCEPT ![front] =
                               [td |-> tile, st |-> "ok", id |-> id]],
             queue_in |-> Q.queue_in,
             queue_out |-> front,
             nqueue |-> Q.nqueue + 1]

\* faulty variant of LoadTileAsync: no scan for a request already present
LoadTileAsync_NoScan(Q, tile, id) ==
    IF Q.nqueue = MAXQUEUE
    THEN Rejected(Q)
    ELSE [ok |-> TRUE,
          loadqueue |-> [Q.loadqueue EXCEPT ![Q.queue_in] =
                            [td |-> tile, st |-> "ok", id |-> id]],
          queue_in |-> (Q.queue_in + 1) % MAXQUEUE,
          queue_out |-> Q.queue_out,
          nqueue |-> Q.nqueue + 1]

\* faulty variant of LoadTileAsync: a rejected request is still written to
\* the entry at queue_in
LoadTileAsync_Scribble(Q, tile, id) ==
    IF Q.nqueue = MAXQUEUE \/ InWindow(Q.loadqueue, Q.queue_out, Q.nqueue, tile)
    THEN [Rejected(Q) EXCEPT !.loadqueue[Q.queue_in] =
                                 [td |-> tile, st |-> "ok", id |-> id]]
    ELSE [ok |-> TRUE,
          loadqueue |-> [Q.loadqueue EXCEPT ![Q.queue_in] =
                            [td |-> tile, st |-> "ok", id |-> id]],
          queue_in |-> (Q.queue_in + 1) % MAXQUEUE,
          queue_out |-> Q.queue_out,
          nqueue |-> Q.nqueue + 1]

\* faulty variant of LoadTileAsync: the request is reported accepted but
\* is not stored
LoadTileAsync_Drop(Q, tile, id) ==
    IF Q.nqueue = MAXQUEUE \/ InWindow(Q.loadqueue, Q.queue_out, Q.nqueue, tile)
    THEN Rejected(Q)
    ELSE [Rejected(Q) EXCEPT !.ok = TRUE]

\* faulty variant of LoadTileAsync: queue_in is advanced without wrapping
LoadTileAsync_NoWrap(Q, tile, id) ==
    IF Q.nqueue = MAXQUEUE \/ InWindow(Q.loadqueue, Q.queue_out, Q.nqueue, tile)
    THEN Rejected(Q)
    ELSE [ok |-> TRUE,
          loadqueue |-> [Q.loadqueue EXCEPT ![Q.queue_in] =
                            [td |-> tile, st |-> "ok", id |-> id]],
          queue_in |-> Q.queue_in + 1,
          queue_out |-> Q.queue_out,
          nqueue |-> Q.nqueue + 1]

\* TileBuffer::LoadTileAsync on Q = [loadqueue, queue_in, queue_out, nqueue];
\* id is the acceptance number the request gets if accepted
LoadTileAsync(Q, tile, id) ==
    LET present == \E i \in 0 .. (Q.nqueue - 1) :
                       SameTd(Q.loadqueue[(i + Q.queue_out) % MAXQUEUE], tile)
        ok == ~(Q.nqueue = MAXQUEUE) /\ ~present
    IN IF ok
       THEN [ok |-> TRUE,
             loadqueue |-> [Q.loadqueue EXCEPT ![Q.queue_in] =
                               [td |-> tile, st |-> "ok", id |-> id]],
             queue_in |-> (Q.queue_in + 1) % MAXQUEUE,
             queue_out |-> Q.queue_out,
             nqueue |-> Q.nqueue + 1]
       ELSE [ok |-> FALSE,
             loadqueue |-> Q.loadqueue,
             queue_in |-> Q.queue_in,
             queue_out |-> Q.queue_out,
             nqueue |-> Q.nqueue]

TheQueue ==
    [loadqueue |-> loadqueue, queue_in |-> queue_in, queue_out |-> queue_out,
     nqueue |-> nqueue]

\* ------------------------------------------------------------------------
\* The descriptor pool: deletion

\* a texture handle of a loaded descriptor
LoadedTex(d) == d.live /\ ~NotLoaded(d.flag) /\ IsHandle(d.tex)

\* faulty variant of DeleteTile: a descriptor is kept only for a loaded
\* texture, so unloaded catalogue descriptors are deleted
RECURSIVE DeleteTile_Loaded(_, _)
DeleteTile_Loaded(X, tile) ==
    LET Step(Y, i) ==
            IF Len(tile) < maxlvl - STARTLVL /\ Y.t[Child(tile, i)].live
            THEN LET r == DeleteTile_Loaded([t |-> Y.t, log |-> Y.log],
                                            Child(tile, i))
                 IN [t |-> r.t, log |-> r.log, del |-> Y.del /\ r.del]
            ELSE Y
        Y0 == [t |-> X.t, log |-> X.log, del |-> TRUE]
        Y4 == Step(Step(Step(Step(Y0, 0), 1), 2), 3)
    IN IF LoadedTex(Y4.t[tile]) \/ ~Y4.del
       THEN [t |-> Y4.t,
             log |-> Y4.log \cup {[n |-> tile, del |-> FALSE]},
             del |-> FALSE]
       ELSE [t |-> [Y4.t EXCEPT ![tile] = NoDesc],
             log |-> Y4.log \cup {[n |-> tile, del |-> TRUE]},
             del |-> TRUE]

\* faulty variant of DeleteTile: a call that returns false leaves the
\* subtile pointers of its tile as they were, also those of the children
\* it has freed
RECURSIVE DeleteTile_KeepPointer(_, _)
DeleteTile_KeepPointer(X, tile) ==
    LET Step(Y, i) ==
            IF Len(tile) < maxlvl - STARTLVL /\ Y.t[Child(tile, i)].live
            THEN LET r == DeleteTile_KeepPointer([t |-> Y.t, log |-> Y.log],
                                                 Child(tile, i))
                 IN [t |-> r.t, log |-> r.log, del |-> Y.del /\ r.del]
            ELSE Y
        Y0 == [t |-> X.t, log |-> X.log, del |-> TRUE]
        Y4 == Step(Step(Step(Step(Y0, 0), 1), 2), 3)
    IN IF Y4.t[tile].tex # 0 \/ ~Y4.del
       THEN [t |-> [n \in Nodes |->
                      IF Len(n) = Len(tile) + 1 /\ IsPrefix(tile, n)
                      THEN X.t[n] ELSE Y4.t[n]],
             log |-> Y4.log \cup {[n |-> tile, del |-> FALSE]},
             del |-> FALSE]
       ELSE [t |-> [Y4.t EXCEPT ![tile] = NoDesc],
             log |-> Y4.log \cup {[n |-> tile, del |-> TRUE]},
             del |-> TRUE]

\* TileBuffer::DeleteTile on X = [t, log]: the result carries the new
\* descriptors, the return value del and the calls made (history)
RECURSIVE DeleteTile(_, _)
DeleteTile(X, tile) ==
    LET Step(Y, i) ==
            IF Len(tile) < maxlvl - STARTLVL /\ Y.t[Child(tile, i)].live
            THEN LET r == DeleteTile([t |-> Y.t, log |-> Y.log], Child(tile, i))
                 IN [t |-> r.t, log |-> r.log, del |-> Y.del /\ r.del]
            ELSE Y
        Y0 == [t |-> X.t, log |-> X.log, del |-> TRUE]
        Y4 == Step(Step(Step(Step(Y0, 0), 1), 2), 3)
    IN IF Y4.t[tile].tex # 0 \/ ~Y4.del
       THEN [t |-> Y4.t,
             log |-> Y4.log \cup {[n |-> tile, del |-> FALSE]},
             del |-> FALSE]
       ELSE [t |-> [Y4.t EXCEPT ![tile] = NoDesc],
             log |-> Y4.log \cup {[n |-> tile, del |-> TRUE]},
             del |-> TRUE]

\* TileBuffer::DeleteSubTiles
DeleteSubTiles(t, tile) ==
    LET Step(Y, i) ==
            IF Len(tile) < maxlvl - STARTLVL /\ Y.t[Child(tile, i)].live
            THEN LET r == DeleteTile(Y, Child(tile, i))
                 IN [t |-> r.t, log |-> r.log]
            ELSE Y
        Y0 == [t |-> t, log |-> {}]
    IN Step(Step(Step(Step(Y0, 0), 1), 2), 3)

\* TileBuffer::AddTile: a zeroed descriptor in the child slot n
\* variant: the new descriptor is marked as not loaded
AddTile_NotLoaded(t, n) == [t EXCEPT ![n] = [ZeroDesc EXCEPT !.flag = 128]]

AddTile(t, n) == [t EXCEPT ![n] = ZeroDesc]

\* a pointer to a descriptor that has been deleted is left dangling
Dangle(e, told, tnew) ==
    IF e.st = "ok" /\ told[e.td].live /\ ~tnew[e.td].live
    THEN [e EXCEPT !.st = "freed"]
    ELSE e

\* the block of a freed descriptor is handed out again by operator new:
\* every pointer to the freed descriptor a now refers to descriptor n
Realias(e, a, n) ==
    IF e.st = "freed" /\ e.td = a
    THEN [e EXCEPT !.td = n, !.st = "ok"]
    ELSE e

\* AddTile's allocation reuses no freed block a pointer still refers to
NoAlias == <<-1>>

\* the freed descriptors some pointer of the loader still refers to
FreedRefs ==
    { loadqueue[j].td :
        j \in { k \in { (i + queue_out) % MAXQUEUE : i \in 0 .. (nqueue - 1) } :
                  loadqueue[k].st = "freed" } }
        \cup (IF qd.st = "freed" /\ lpc \in {"read", "apply"}
              THEN {qd.td} ELSE {})

\* ------------------------------------------------------------------------
\* The LOD traversal

\* the texture set a ProcessTile call is given (range, tex, ltex, flag):
\* the range is the square of side 2^-k at (iu, iv) * 2^-k; owner is the
\* descriptor the textures were taken from (history)
TexSet(d, n) ==
    [tex |-> d.tex, ltex |-> d.ltex, flag |-> d.flag,
     k |-> 0, iu |-> 0, iv |-> 0, owner |-> n]

\* faulty variant of SubRange: the v half is taken from i instead of 1-i
SubRange_Flip(ts, i, j) ==
    [ts EXCEPT !.k = @ + 1, !.iu = 2 * @ + j, !.iv = 2 * @ + i]

\* subrange of the loop indices i, j (lines 610 and 612)
SubRange(ts, i, j) ==
    [ts EXCEPT !.k = @ + 1, !.iu = 2 * @ + j, !.iv = 2 * @ + (1 - i)]

NoDraw == [on |-> FALSE]

\* the tiles the camera comes close enough to for the obliqueness test of
\* ProcessTile (lines 574-600) to let them subdivide
Near == { <<>>, <<2>> }

\* what the camera geometry decides for one ProcessTile call: the tile is
\* outside the view cone, outside the frustum, is subdivided, is rendered
\* with the current or (coarse) the backup textures, or is hidden behind
\* the horizon
Outcomes(tile, lvl, tgt) ==
    {"cone", "frustum", "hidden", "draw"}
        \cup (IF lvl < tgt THEN {"coarse"} ELSE {})
        \cup (IF lvl < tgt /\ tile \in Near THEN {"down"} ELSE {})

\* faulty variant of ProcessTile: the tile outside the view cone has its
\* subtiles deleted as well
ProcessTile_ConeDeletes(t, tile, lvl, ilat, ilng, cur, bkp, outcome) ==
    LET D == IF outcome \in {"frustum", "cone"}
             THEN DeleteSubTiles(t, tile)
             ELSE [t |-> t, log |-> {}]
        call(ts, c) == [on |-> TRUE, node |-> tile, lvl |-> lvl,
                        ilat |-> ilat, ilng |-> ilng, coarse |-> c, ts |-> ts]
    IN [t |-> D.t,
        log |-> D.log,
        down |-> outcome = "down",
        draw |-> CASE outcome = "draw" -> call(cur, FALSE)
                   [] outcome = "coarse" -> call(bkp, TRUE)
                   [] OTHER -> NoDraw]

\* TileManager::ProcessTile up to the recursion: the effect of one call on
\* the descriptors, the DeleteTile calls and the RenderTile call it makes,
\* and whether it goes on to subdivide
ProcessTile(t, tile, lvl, ilat, ilng, cur, bkp, outcome) ==
    LET D == IF outcome = "frustum"
             THEN DeleteSubTiles(t, tile)
             ELSE [t |-> t, log |-> {}]
        call(ts, c) == [on |-> TRUE, node |-> tile, lvl |-> lvl,
                        ilat |-> ilat, ilng |-> ilng, coarse |-> c, ts |-> ts]
    IN [t |-> D.t,
        log |-> D.log,
        down |-> outcome = "down",
        draw |-> CASE outcome = "draw" -> call(cur, FALSE)
                   [] outcome = "coarse" -> call(bkp, TRUE)
                   [] OTHER -> NoDraw]

\* faulty variant of IsFull: the texture pointer is not tested
IsFull_NoTex(d) == d.live /\ ~NotLoaded(d.flag)

\* isfull of the subdivision loop (lines 612-622): the child descriptor
\* existed, its flag 0x80 is clear and its tex is not NULL
IsFull(d) == d.live /\ ~NotLoaded(d.flag) /\ d.tex # 0

\* a ProcessTile call that is subdividing: idx is the next child slot
Frame(tile, lvl, ilat, ilng, cur) ==
    [node |-> tile, lvl |-> lvl, ilat |-> ilat, ilng |-> ilng, idx |-> 0,
     cur |-> cur]

\* the returns of the calls whose four children are done
RECURSIVE Unwind(_)
Unwind(st) ==
    IF st # <<>> /\ st[Len(st)].idx = NSUB
    THEN Unwind(SubSeq(st, 1, Len(st) - 1))
    ELSE st

\* the child slot of loop indices i, j is done: the caller goes on
NextSlot(st) == [st EXCEPT ![Len(st)].idx = @ + 1]

\* the loader's locals tex and mask outside the block that declares them;
\* fail tells whether ReadDDSSurface failed for the surface (history)
NoLoad == [tex |-> 0, mask |-> 0, fail |-> FALSE]

\* ------------------------------------------------------------------------
\* Initial state: a constructed manager, an idle render thread and a
\* started loader thread

InitManager ==
    /\ cfg \in Configs
    /\ tiles = LoadTextures(cfg)
    /\ loadqueue = [j \in 0 .. (MAXQUEUE - 1) |-> NullEntry]
    /\ queue_in = 0
    /\ queue_out = 0
    /\ nqueue = 0
    /\ hQueueMutex = "free"
    /\ bRunThread = TRUE
    /\ bHoldThread = FALSE
    /\ lpc = "sleep"
    /\ qd = NullEntry
    /\ ld = NoLoad
    /\ rpc = "idle"
    /\ tgtlvl = 0
    /\ stack = <<>>
    /\ nAcc = 0
    /\ nPub = 0
    /\ lastPub = 0
    /\ lastReq = NoReq
    /\ delLog = {}
    /\ draw = NoDraw

Init ==
    /\ InitManager
    /\ lastCall = NoCall
    /\ lastRet = NoRet

NoCalls == lastReq' = NoReq /\ delLog' = {} /\ draw' = NoDraw

\* ------------------------------------------------------------------------
\* Render thread

\* the levels a frame is requested with
Levels == { maxlvl, maxlvl + 1 }

Min(a, b) == IF a < b THEN a ELSE b

\* TileManager::Render, level > 4: the queue mutex is taken before the
\* first ProcessTile call
BeginFrame(level) ==
    /\ rpc = "idle"
    /\ hQueueMutex = "free"
    /\ hQueueMutex' = "render"
    /\ tgtlvl' = Min(level, maxlvl)
    /\ rpc' = "base"
    /\ stack' = <<>>
    /\ NoCalls
    /\ UNCHANGED <<cfg, callVars, tiles, queueVars, bRunThread, bHoldThread,
                   loaderVars, histVars>>

\* the pointers of the loader after the descriptors changed from t0 to t1
DanglingQueue(lq, t0, t1) ==
    [j \in 0 .. (MAXQUEUE - 1) |-> Dangle(lq[j], t0, t1)]

\* Render's call of ProcessTile for the base tile (lines 526-528): its
\* effect on the manager
TraverseBase(outcome) ==
    /\ rpc = "base"
    /\ outcome \in Outcomes(Root, Min(tgtlvl, STARTLVL), tgtlvl)
    /\ LET ts == TexSet(tiles[Root], Root)
           startlvl == Min(tgtlvl, STARTLVL)
           R == ProcessTile(tiles, Root, startlvl, 0, 0, ts, ts, outcome)
       IN /\ tiles' = R.t
          /\ delLog' = R.log
          /\ draw' = R.draw
          /\ lastReq' = NoReq
          /\ loadqueue' = DanglingQueue(loadqueue, tiles, R.t)
          /\ qd' = Dangle(qd, tiles, R.t)
          /\ stack' = IF R.down
                      THEN <<Frame(Root, startlvl, 0, 0, ts)>>
                      ELSE <<>>
    /\ rpc' = "tree"
    /\ UNCHANGED <<cfg, queue_in, queue_out, nqueue, hQueueMutex, bRunThread,
                   bHoldThread, lpc, ld, tgtlvl, histVars>>

ProcessBase(outcome) == TraverseBase(outcome) /\ UNCHANGED callVars

\* one pass of the subdivision loop of ProcessTile (lines 609-635) for
\* the child slot idx of the innermost subdividing call, with the call of
\* ProcessTile for that child; alias is the freed descriptor whose block
\* AddTile's allocation reuses, if any
TraverseChild(outcome, alias) ==
    /\ rpc = "tree"
    /\ stack # <<>>
    /\ LET top == stack[Len(stack)]
           idx == top.idx
           i == 1 - (idx \div 2)
           j == idx % 2
           tile == top.node
           subtile == Child(tile, idx)
           lvl == top.lvl + 1
           exists == tiles[subtile].live
           request == exists /\ NotLoaded(tiles[subtile].flag)
                             /\ ~NotLoaded(tiles[tile].flag)
           A == LoadTileAsync(TheQueue, subtile, nAcc + 1)
           t1 == IF exists THEN tiles ELSE AddTile(tiles, subtile)
           isfull == IsFull(tiles[subtile])
           subrange == SubRange(top.cur, i, j)
           cur == IF isfull THEN TexSet(tiles[subtile], subtile) ELSE subrange
           R == ProcessTile(t1, subtile, lvl, top.ilat * 2 + i,
                            top.ilng * 2 + j, cur, subrange, outcome)
           lq1 == IF request THEN A.loadqueue ELSE loadqueue
           lq2 == IF alias = NoAlias THEN lq1
                  ELSE [k \in 0 .. (MAXQUEUE - 1) |->
                           Realias(lq1[k], alias, subtile)]
           qd2 == IF alias = NoAlias THEN qd
                  ELSE Realias(qd, alias, subtile)
       IN /\ outcome \in Outcomes(subtile, lvl, tgtlvl)
          /\ alias \in (IF exists THEN {NoAlias}
                        ELSE {NoAlias} \cup FreedRefs)
          /\ tiles' = R.t
          /\ delLog' = R.log
          /\ draw' = R.draw
          /\ lastReq' = IF request
                        THEN [called |-> TRUE, td |-> subtile, ok |-> A.ok]
                        ELSE NoReq
          /\ loadqueue' = DanglingQueue(lq2, t1, R.t)
          /\ qd' = Dangle(qd2, t1, R.t)
          /\ queue_in' = IF request THEN A.queue_in ELSE queue_in
          /\ queue_out' = IF request THEN A.queue_out ELSE queue_out
          /\ nqueue' = IF request THEN A.nqueue ELSE nqueue
          /\ nAcc' = IF request /\ A.ok THEN nAcc + 1 ELSE nAcc
          /\ stack' = IF R.down
                      THEN Append(NextSlot(stack),
                                  Frame(subtile, lvl, top.ilat * 2 + i,
                                        top.ilng * 2 + j, cur))
                      ELSE Unwind(NextSlot(stack))
    /\ UNCHANGED <<cfg, hQueueMutex, bRunThread, bHoldThread, lpc, ld, rpc,
                   tgtlvl, nPub, lastPub>>

ProcessChild(outcome, alias) ==
    TraverseChild(outcome, alias) /\ UNCHANGED callVars

\* TileManager::Render: the queue mutex is released after the last
\* ProcessTile call has returned (line 535)
EndFrame ==
    /\ rpc = "tree"
    /\ stack = <<>>
    /\ hQueueMutex' = "free"
    /\ rpc' = "idle"
    /\ NoCalls
    /\ UNCHANGED <<cfg, callVars, tiles, queueVars, bRunThread, bHoldThread,
                   loaderVars, tgtlvl, stack, histVars>>

\* TileBuffer::HoldThread
HoldThread(bHold) ==
    /\ rpc = "idle"
    /\ bHoldThread # bHold
    /\ bHoldThread' = bHold
    /\ NoCalls
    /\ UNCHANGED <<cfg, callVars, tiles, queueVars, hQueueMutex, bRunThread,
                   loaderVars, renderVars, histVars>>

\* ------------------------------------------------------------------------
\* Loader thread (TileBuffer::LoadTile_ThreadProc)

\* what a read of a freed descriptor can return
FreedContents == { CatalogueDesc(TFS[i], cfg) : i \in 1 .. 4 } \cup {ZeroDesc}

\* what the loader's reads of td->flag, td->tex and td->ltex return: the
\* descriptor, or for a dangling td whatever the freed block holds
ReadValues == IF qd.st = "ok" THEN {tiles[qd.td]} ELSE FreedContents

\* offset of archive index idx (lines 1391 and 1408)
Offset(flag, idx) == IF HasBit(flag, 64) THEN idx * TILESIZE ELSE idx

\* faulty variant of LoadSurface: a failed read leaves the archive index
LoadSurface_KeepIndex(d, hr) ==
    IF d.tex = NOTILE THEN 0
    ELSE IF hr THEN Handle(1, Offset(d.flag, d.tex)) ELSE d.tex

\* lines 1387-1401: the surface texture loaded for descriptor d; hr tells
\* whether ReadDDSSurface returned S_OK
LoadSurface(d, hr) ==
    IF d.tex = NOTILE THEN 0
    ELSE IF hr THEN Handle(1, Offset(d.flag, d.tex)) ELSE 0

\* lines 1402-1413: the mask texture loaded for descriptor d
LoadMask(d, hr) ==
    IF WantsMask(d.flag)
    THEN IF d.ltex = NOTILE THEN 0
         ELSE IF hr THEN Handle(2, Offset(d.flag, d.ltex)) ELSE 0
    ELSE 0

\* faulty variant of Published: the flag is cleared but tex keeps its index
Published_NoTex(d, tex, mask) ==
    [d EXCEPT !.ltex = mask, !.flag = @ % 64]

\* faulty variant of Published: the old-style index bit is left set
Published_Keep40(d, tex, mask) ==
    [d EXCEPT !.tex = tex, !.ltex = mask, !.flag = ClrBit(@, 128)]

\* faulty variant of Published: the not-loaded bit is left set
Published_KeepFlag(d, tex, mask) ==
    [d EXCEPT !.tex = tex, !.ltex = mask, !.flag = ClrBit(@, 64)]

\* lines 1416-1418: the descriptor after publication
Published(d, tex, mask) ==
    [d EXCEPT !.tex = tex, !.ltex = mask, !.flag = @ % 64]

\* faulty variant of CanLock: the loader does not wait for the mutex
CanLock_Always(mutex) == TRUE

\* the loader can take the queue mutex (WaitForSingleObject returns)
CanLock(mutex) == mutex = "free"

\* faulty variant of L_Publish: the published request stays at the head
L_Publish_NoPop ==
    /\ lpc = "apply"
    /\ CanLock(hQueueMutex)
    /\ tiles' = IF qd.st = "ok"
                THEN [tiles EXCEPT ![qd.td] = Published(@, ld.tex, ld.mask)]
                ELSE tiles
    /\ lpc' = "sleep"
    /\ nPub' = nPub + 1
    /\ lastPub' = qd.id
    /\ ld' = [tex |-> 0, mask |-> 0, fail |-> FALSE]
    /\ lastReq' = NoReq /\ delLog' = {} /\ draw' = NoDraw
    /\ UNCHANGED <<cfg, callVars, queueVars, hQueueMutex, bRunThread,
                   bHoldThread, qd, renderVars, nAcc>>

\* lines 1364-1376: after the sleep the thread leaves when it is stopped
\* and skips the iteration when it is held; otherwise it copies the head
\* request, without removing it, while it holds the queue mutex
L_CopyOut ==
    /\ lpc = "sleep"
    /\ IF ~bRunThread
       THEN /\ lpc' = "exit"
            /\ UNCHANGED qd
       ELSE IF bHoldThread
       THEN UNCHANGED <<lpc, qd>>
       ELSE /\ CanLock(hQueueMutex)
            /\ qd' = IF nqueue > 0 THEN loadqueue[queue_out] ELSE qd
            /\ lpc' = IF nqueue > 0 THEN "read" ELSE "sleep"
    /\ NoCalls
    /\ UNCHANGED <<cfg, callVars, tiles, queueVars, hQueueMutex, bRunThread,
                   bHoldThread, ld, renderVars, histVars>>

\* lines 1378-1413, outside the mutex: the archive reads
L_Read(hrTex, hrMask, freed) ==
    /\ lpc = "read"
    /\ freed \in ReadValues
    /\ ld' = [tex |-> LoadSurface(freed, hrTex),
              mask |-> LoadMask(freed, hrMask),
              fail |-> freed.tex # NOTILE /\ ~hrTex]
    /\ lpc' = "apply"
    /\ NoCalls
    /\ UNCHANGED <<cfg, callVars, tiles, queueVars, hQueueMutex, bRunThread,
                   bHoldThread, qd, renderVars, histVars>>

\* lines 1415-1421: publication while the loader holds the queue mutex; a
\* write through a dangling pointer changes no descriptor
L_Publish ==
    /\ lpc = "apply"
    /\ CanLock(hQueueMutex)
    /\ tiles' = IF qd.st = "ok"
                THEN [tiles EXCEPT ![qd.td] = Published(@, ld.tex, ld.mask)]
                ELSE tiles
    /\ nqueue' = nqueue - 1
    /\ queue_out' = (queue_out + 1) % MAXQUEUE
    /\ lpc' = "sleep"
    /\ nPub' = nPub + 1
    /\ lastPub' = qd.id
    /\ ld' = NoLoad
    /\ NoCalls
    /\ UNCHANGED <<cfg, callVars, loadqueue, queue_in, hQueueMutex, bRunThread,
                   bHoldThread, qd, renderVars, nAcc>>

\* ------------------------------------------------------------------------
\* Specification

AllOutcomes == {"cone", "frustum", "hidden", "draw", "down", "coarse"}

Next ==
    \/ \E level \in Levels : BeginFrame(level)
    \/ \E o \in AllOutcomes : ProcessBase(o)
    \/ \E o \in AllOutcomes, a \in FreedRefs \cup {NoAlias} : ProcessChild(o, a)
    \/ EndFrame
    \/ L_CopyOut
    \/ \E h1 \in BOOLEAN, h2 \in BOOLEAN, f \in ReadValues : L_Read(h1, h2, f)
    \/ L_Publish

Spec == Init /\ [][Next]_vars

\* ------------------------------------------------------------------------
\* Properties of the request queue

\* the descriptor is queued (in flight included: the head stays queued)
Queued(tile) == InWindow(loadqueue, queue_out, nqueue, tile)

\* the loader has copied the head request out and not yet published it
InFlight == lpc \in {"read", "apply"}

\* the acceptance numbers of the pending requests, oldest first
PendingIds == [ i \in 1 .. nqueue |-> loadqueue[Window(queue_out, nqueue)[i]].id ]

\* C1: requests are served in FIFO order. The k-th publication is the
\* publication of the k-th accepted request, and the pending requests sit in
\* the queue in the order of their acceptance, so a request accepted before
\* another is published no later than it, whatever the interleaving.
C1_FIFO ==
    /\ lastPub = nPub
    /\ \A i \in 1 .. nqueue : PendingIds[i] = nPub + i

\* two requests have been published while a later one is in flight
C1_Witness == nPub >= 2 /\ lastPub = 2 /\ nqueue > 0 /\ lpc = "apply"

\* the step leaves the queue as it is: the counters and the pointer of
\* every entry (a deletion in the same step can leave a pointer dangling,
\* which does not change the entry)
QueueUnchanged ==
    /\ UNCHANGED <<queue_in, queue_out, nqueue>>
    /\ \A j \in 0 .. (MAXQUEUE - 1) :
           /\ loadqueue'[j].td = loadqueue[j].td
           /\ loadqueue'[j].id = loadqueue[j].id
           /\ (loadqueue'[j].st = "null") = (loadqueue[j].st = "null")

\* the call of the last step was made for a descriptor that was queued
DuplicateCall ==
    /\ lastReq'.called
    /\ Queued(lastReq'.td)

\* C2: LoadTileAsync returns false and enqueues nothing when the descriptor
\* is already queued or in flight; no descriptor occupies two entries of the
\* queue; the loader's copy-out leaves the head in the queue, so an
\* in-flight request is still the head entry until it is published.
C2_NoDuplicates ==
    /\ [](\A i \in 1 .. nqueue : \A j \in 1 .. nqueue :
             LET W == Window(queue_out, nqueue)
             IN (i # j /\ loadqueue[W[i]].st = "ok")
                    => ~SameTd(loadqueue[W[j]], loadqueue[W[i]].td))
    /\ [](InFlight => nqueue > 0 /\ loadqueue[queue_out] = qd)
    /\ [][DuplicateCall => ~lastReq'.ok /\ QueueUnchanged]_vars

\* a request for the in-flight descriptor was rejected while the queue had
\* room
C2_Witness ==
    /\ lastReq.called
    /\ ~lastReq.ok
    /\ nqueue < MAXQUEUE
    /\ InFlight
    /\ SameTd(qd, lastReq.td)

\* the call of the last step was rejected
RejectedCall == lastReq'.called /\ ~lastReq'.ok

\* C3: a call of LoadTileAsync that finds the queue full or the descriptor
\* already queued returns false and leaves nqueue, queue_in, queue_out and
\* every queue entry unchanged; the descriptor keeps its flag, tex and ltex,
\* so it is still an unloaded descriptor that can be requested again. And a
\* call is rejected only for one of these two reasons.
C3_SilentReject ==
    /\ [][RejectedCall =>
            /\ QueueUnchanged
            /\ tiles'[lastReq'.td] = tiles[lastReq'.td]
            /\ NotLoaded(tiles'[lastReq'.td].flag)
            /\ (nqueue = MAXQUEUE \/ Queued(lastReq'.td))]_vars
    /\ [][(lastReq'.called /\ (nqueue = MAXQUEUE \/ Queued(lastReq'.td)))
              => ~lastReq'.ok]_vars

\* a request was rejected because the queue was full
C3_Witness ==
    /\ lastReq.called
    /\ ~lastReq.ok
    /\ nqueue = MAXQUEUE
    /\ ~Queued(lastReq.td)

\* C4: the number of publications equals the number of accepted requests:
\* at any time the accepted requests are the published ones plus the
\* pending ones, every pending request is one that is not yet published
\* and is pending once, and a step publishes at most one request, which was
\* accepted. (The scenario's MAXQUEUE = 10 is the bound MAXQUEUE here:
\* MAXQUEUE accepted, a further one rejected, MAXQUEUE publications.)
C4_PublishedOnce ==
    /\ [](nAcc = nPub + nqueue)
    /\ [](\A i \in 1 .. nqueue : PendingIds[i] > nPub /\ PendingIds[i] <= nAcc)
    /\ [](\A i \in 1 .. nqueue : \A j \in 1 .. nqueue :
             i # j => PendingIds[i] # PendingIds[j])
    /\ [][nPub' # nPub => nPub' = nPub + 1 /\ nPub' <= nAcc
                                  /\ nAcc' = nAcc]_vars
    /\ [][RejectedCall => nAcc' = nAcc /\ nPub' = nPub]_vars

\* MAXQUEUE requests were accepted and all of them published, and the
\* request that found the queue full is still unloaded
C4_Witness ==
    /\ nAcc = MAXQUEUE
    /\ nPub = MAXQUEUE
    /\ nqueue = 0
    /\ \E n \in Nodes : tiles[n].live /\ tiles[n].cat /\ Len(n) = 1
                          /\ NotLoaded(tiles[n].flag)

\* ------------------------------------------------------------------------
\* Properties of the descriptors

\* the texture word is a texture handle or NULL ("no texture")
Resolved(v) == v = 0 \/ IsHandle(v)

\* C5: every descriptor whose flag has 0x80 clear holds a texture handle or
\* the no-texture value in tex, never an unresolved archive index, after
\* the catalogue was read, after preload, after publications and after
\* lazy creation.
C5_LoadedIsResolved ==
    \A n \in Nodes :
        (tiles[n].live /\ ~NotLoaded(tiles[n].flag)) => Resolved(tiles[n].tex)

\* a catalogue descriptor was published with a texture while a descriptor
\* created by the traversal exists
C5_Witness ==
    /\ nPub > 0
    /\ \E n \in Nodes : tiles[n].cat /\ LoadedTex(tiles[n]) /\ tiles[n].tex > Handle(1, 0)
    /\ \E n \in Nodes : tiles[n].live /\ ~tiles[n].cat /\ n # Root

\* ------------------------------------------------------------------------
\* Properties of the traversal

\* the descriptor is loaded and has a texture of its own
OwnTex(n) == LoadedTex(tiles[n])

\* the texture set ts belongs to the loaded descriptor at a, an ancestor of
\* tile n or n itself, and its range is the rectangle of the tile at
\* (ilat, ilng) inside the texture of a: side 2^-k, column ilng mod 2^k,
\* rows counted from the highest ilat
InheritedFrom(ts, n, ilat, ilng) ==
    LET a == ts.owner
        k == Len(n) - Len(a)
    IN /\ IsPrefix(a, n)
       /\ OwnTex(a)
       /\ ts.tex = tiles[a].tex
       /\ ts.ltex = tiles[a].ltex
       /\ ts.flag = tiles[a].flag
       /\ ts.k = k
       /\ ts.iu = ilng % (2 ^ k)
       /\ ts.iv = (2 ^ k) - 1 - (ilat % (2 ^ k))

\* the claim as stated: also a draw with the backup textures passes the
\* tile's own texture when the tile is loaded with a texture
C6_AsStated ==
    draw.on =>
        /\ InheritedFrom(draw.ts, draw.node, draw.ilat, draw.ilng)
        /\ IsHandle(draw.ts.tex)
        /\ (OwnTex(draw.node) <=> draw.ts.owner = draw.node)

\* C6 (amended): every RenderTile call passes a texture handle, never an
\* archive index, that belongs to a descriptor with 0x80 clear, with the
\* rectangle of the tile inside that texture. A draw with the current
\* textures passes the tile's own texture if the tile is loaded with a
\* texture and otherwise that of a loaded ancestor; a draw with the backup
\* textures (coarse) of a tile below the base level always passes the
\* texture of a loaded ancestor, also when the tile has its own.
C6_DrawTexture ==
    draw.on =>
        /\ InheritedFrom(draw.ts, draw.node, draw.ilat, draw.ilng)
        /\ IsHandle(draw.ts.tex)
        /\ (~draw.coarse => (OwnTex(draw.node) <=> draw.ts.owner = draw.node))
        /\ (draw.coarse /\ draw.node # Root => draw.ts.owner # draw.node)

\* a tile two levels below the base tile, not loaded, is drawn with the
\* base tile's texture
C6_Witness ==
    /\ draw.on
    /\ ~draw.coarse
    /\ Len(draw.node) = 2
    /\ tiles[draw.node].cat
    /\ NotLoaded(tiles[draw.node].flag)
    /\ draw.ts.owner = Root

\* a tile loaded with a texture is drawn coarse
C6_WitnessCoarse ==
    /\ draw.on
    /\ draw.coarse
    /\ OwnTex(draw.node)
    /\ draw.node # Root

\* every descriptor below n, n included, has a zero texture word
AllTexZero(t, n) == \A m \in Subtree(n) : t[m].live => t[m].tex = 0

\* no descriptor below n, n included, has a loaded texture
NoLoadedTex(t, n) == \A m \in Subtree(n) : ~LoadedTex(t[m])

\* the claim as stated: deleted iff no loaded texture in the subtree
C7_AsStated ==
    [][\A e \in delLog' : e.del <=> NoLoadedTex(tiles, e.n)]_vars

\* C7 (amended): DeleteTile(d) returns true, and d is deleted, if and only
\* if the texture word of every descriptor in the subtree of d is zero:
\* none holds a texture handle and none holds a non-zero unresolved index
\* or NOTILE. A subtree with a loaded texture is kept, and so is a subtree
\* of not-yet-loaded catalogue descriptors with a non-zero index; a
\* descriptor that is kept is left as it was.
C7_DeleteTile ==
    [][\A e \in delLog' :
          /\ e.del <=> AllTexZero(tiles, e.n)
          /\ e.del => ~tiles'[e.n].live
          /\ ~e.del => tiles'[e.n] = tiles[e.n]
          /\ LoadedTex(tiles[e.n]) => ~e.del]_vars

\* DeleteTile kept a not-yet-loaded catalogue descriptor that has no loaded
\* texture below it, and deleted another descriptor
C7_Witness ==
    /\ \E e \in delLog : ~e.del /\ tiles[e.n].cat /\ NotLoaded(tiles[e.n].flag)
                            /\ NoLoadedTex(tiles, e.n)
    /\ \E e \in delLog : e.del

\* the descriptor as the catalogue defined it
PreLoad(n) == LoadTileData(cfg).t[n]

\* C8: the render thread holds the queue mutex during the whole traversal
\* of a frame and the loader publishes only when it has the mutex: no
\* publication falls between the start and the end of a traversal, during
\* which a descriptor changes only by being created or deleted by the
\* traversal; and every descriptor is either as the catalogue defined it
\* (0x80 set, archive index) or has 0x80 clear and a handle or no texture.
C8_MutexFrame ==
    /\ []((rpc # "idle") <=> (hQueueMutex = "render"))
    /\ [][nPub' # nPub => rpc = "idle" /\ rpc' = "idle"]_vars
    /\ [][rpc # "idle" =>
            \A n \in Nodes : (tiles[n].live /\ tiles'[n].live)
                                 => tiles'[n] = tiles[n]]_vars
    /\ [](LET catalogue == LoadTileData(cfg).t
          IN \A n \in Nodes : tiles[n].live =>
                 IF NotLoaded(tiles[n].flag)
                 THEN tiles[n] = catalogue[n]
                 ELSE Resolved(tiles[n].tex) /\ Resolved(tiles[n].ltex))

\* the loader has a texture to publish and waits while a traversal that
\* requested further tiles is under way
C8_Witness ==
    /\ rpc = "tree"
    /\ stack # <<>>
    /\ lpc = "apply"
    /\ IsHandle(ld.tex)
    /\ nqueue = MAXQUEUE

\* a read of the surface archive failed for the request being published
FailedRead == lpc = "apply" /\ qd.st = "ok" /\ ld.fail

\* the descriptor is loaded without a texture
NoTexture(n) == tiles[n].live /\ ~NotLoaded(tiles[n].flag) /\ tiles[n].tex = 0

\* C10: when the archive read fails the loader still publishes: the
\* descriptor gets tex = NULL and 0x80 clear and its request leaves the
\* queue; a loaded descriptor never becomes unloaded again and only
\* unloaded descriptors are requested, so it is not requested again; and a
\* draw of a tile loaded without a texture uses the texture of a loaded
\* ancestor with the inherited rectangle.
C10_FailedRead ==
    /\ [][(FailedRead /\ nPub' # nPub) =>
             /\ tiles'[qd.td].tex = 0
             /\ ~NotLoaded(tiles'[qd.td].flag)
             /\ nqueue' = nqueue - 1
             /\ ~InWindow(loadqueue', queue_out', nqueue', qd.td)]_vars
    /\ [][\A n \in Nodes :
             (tiles[n].live /\ ~NotLoaded(tiles[n].flag) /\ tiles'[n].live)
                 => ~NotLoaded(tiles'[n].flag)]_vars
    /\ [][lastReq'.called => NotLoaded(tiles[lastReq'.td].flag)]_vars
    /\ [](draw.on /\ NoTexture(draw.node) =>
             /\ draw.ts.owner # draw.node
             /\ InheritedFrom(draw.ts, draw.node, draw.ilat, draw.ilng))

\* a catalogue tile whose archive read failed is drawn with the texture of
\* the base tile
C10_Witness ==
    /\ ~cfg.preload
    /\ draw.on
    /\ draw.node = <<1>>
    /\ NoTexture(draw.node)
    /\ draw.ts.owner = Root
    /\ draw.ts.k = 1

\* ------------------------------------------------------------------------
\* Liveness

\* The liveness property is checked for a manager without preload and for
\* the camera geometries that matter to the queue: the base tile is culled
\* by the frustum test (its subtiles are deleted), subdivided, or drawn,
\* and its subtiles are culled or drawn.
LiveInit == Init /\ ~cfg.preload

LiveOutcomes == {"frustum", "down", "draw"}

L_ReadAny ==
    \E h1 \in BOOLEAN, h2 \in BOOLEAN, f \in ReadValues : L_Read(h1, h2, f)

ProcessBaseLive == \E o \in LiveOutcomes : ProcessBase(o)

ProcessChildLive ==
    \E o \in LiveOutcomes \ {"down"}, a \in FreedRefs \cup {NoAlias} :
        ProcessChild(o, a)

LiveNext ==
    \/ BeginFrame(maxlvl)
    \/ ProcessBaseLive
    \/ ProcessChildLive
    \/ EndFrame
    \/ L_CopyOut
    \/ L_ReadAny
    \/ L_Publish

\* the loader thread keeps running and gets the queue mutex when it is
\* released again and again; a frame that has begun is carried through
Fairness ==
    /\ SF_vars(L_CopyOut)
    /\ WF_vars(L_ReadAny)
    /\ SF_vars(L_Publish)
    /\ WF_vars(ProcessBaseLive)
    /\ WF_vars(ProcessChildLive)
    /\ WF_vars(EndFrame)

FairSpec == LiveInit /\ [][LiveNext]_vars /\ Fairness

\* the requests the catalogue can give rise to
MaxRequests == Cardinality(DOMAIN TFS) - 1

\* C9: there is no cancellation: every accepted request is eventually
\* published (the k-th accepted request by the k-th publication), whether
\* or not a later frame visits the tile, provided the loader keeps running
\* and is not held and every frame ends.
C9_NoCancellation ==
    \A k \in 1 .. MaxRequests : (nAcc >= k) ~> (nPub >= k)

\* a request was published although the frame before culled the base tile
\* and deleted the requested descriptor
C9_Witness ==
    /\ nPub = nAcc
    /\ nAcc > 0
    /\ lpc = "sleep"
    /\ \E n \in Nodes : Len(n) = 1 /\ PreLoad(n).cat /\ ~tiles[n].live

\* ------------------------------------------------------------------------
\* TileManager::Render with the resolution limit for fast camera movements

\* maximum supported patch resolution level
SURF_MAX_PATCHLEVEL == 14

\* index of the first descriptor of each base level (TileManager::patchidx)
patchidx == [i \in 0 .. 8 |->
                CASE i = 0 -> 0 [] i = 1 -> 1 [] i = 2 -> 2 [] i = 3 -> 3
                  [] i = 4 -> 5 [] i = 5 -> 13 [] i = 6 -> 37
                  [] i = 7 -> 137 [] OTHER -> 501]

\* cstep, the angle between the camera directions of this frame and of the
\* frame before, is counted in units of limitstep0 = 5.12 * 2^-14 and
\* rounded up: the loop compares it with limitstep0 * 2^k only.  acos
\* gives a NaN when rounding takes the dot product above 1, and pcdir holds
\* no direction before the first frame.
NaN == -1

\* cstep > limitstep in IEEE arithmetic
Greater(cstep, limitstep) == cstep # NaN /\ cstep > limitstep

\* faulty variant of LimitLoop: the floor of 5 is not tested
RECURSIVE LimitLoop_NoFloor(_, _, _, _)
LimitLoop_NoFloor(cstep, limitstep, maxlevel, n) ==
    IF Greater(cstep, limitstep)
    THEN LimitLoop_NoFloor(cstep, limitstep * 2, maxlevel - 1, n + 1)
    ELSE [maxlevel |-> maxlevel, nsteps |-> n, limitstep |-> limitstep]

\* the loop of lines 488-489; n counts the doublings of limitstep (history)
RECURSIVE LimitLoop(_, _, _, _)
LimitLoop(cstep, limitstep, maxlevel, n) ==
    IF Greater(cstep, limitstep) /\ maxlevel > 5
    THEN LimitLoop(cstep, limitstep * 2, maxlevel - 1, n + 1)
    ELSE [maxlevel |-> maxlevel, nsteps |-> n, limitstep |-> limitstep]

\* faulty variant of RateLimit: the resolution is not limited
RateLimit_Off(cstep) ==
    [maxlevel |-> SURF_MAX_PATCHLEVEL, nsteps |-> 0, limitstep |-> 1]

\* lines 486-489: maxlevel and limitstep before the loop
RateLimit(cstep) == LimitLoop(cstep, 1, SURF_MAX_PATCHLEVEL, 0)

\* the largest angle acos returns, pi, in units of limitstep0
MaxStep == (31416 * 2 ^ SURF_MAX_PATCHLEVEL) \div 51200 + 1

\* the angle 0.6 in units of limitstep0
Step06 == (60 * 2 ^ SURF_MAX_PATCHLEVEL) \div 512

\* the octaves of camera speed that are tried
MaxOctave == 10

\* the camera steps that are tried: both sides of every threshold of the
\* loop, the angle 0.6, the largest angle and NaN
CSteps ==
    {NaN, 0, Step06, MaxStep}
        \cup { 2 ^ k : k \in 0 .. MaxOctave }
        \cup { 2 ^ k + 1 : k \in 0 .. MaxOctave }

\* the levels Render is called with
MaxLevel == 14

RenderLevels == 1 .. MaxLevel

\* what RenderSimple draws: npatch tiles of the given level from td on
RenderSimple(level, npatch, td) ==
    [level |-> level, ndraw |-> npatch, td |-> td]

NoSimple == [level |-> 0, ndraw |-> 0, td |-> 0]

\* faulty variant of IsSimple: every level is traversed
IsSimple_Never(level) == FALSE

\* the test of line 503 for the levels drawn without a traversal
IsSimple(level) == level <= 4

\* TileManager::Render up to the first ProcessTile call, and to its end
\* on the simple path
Render(level, cstep) ==
    /\ rpc = "idle"
    /\ LET level1 == Min(level, maxlvl)
           R == RateLimit(cstep)
           level2 == Min(level1, R.maxlevel)
           startlvl == Min(level2, STARTLVL)
           texofs == patchidx[startlvl - 1]
       IN /\ tgtlvl' = level2
          /\ lastCall' = [op |-> "Render", level |-> level, cstep |-> cstep]
          /\ IF IsSimple(level2)
             THEN /\ lastRet' = [op |-> "Render", maxlevel |-> R.maxlevel,
                                 nsteps |-> R.nsteps, level |-> level2,
                                 simple |-> RenderSimple(level2,
                                     patchidx[level2] - patchidx[level2 - 1],
                                     texofs)]
                  /\ rpc' = "idle"
                  /\ UNCHANGED hQueueMutex
             ELSE /\ lastRet' = [op |-> "Render", maxlevel |-> R.maxlevel,
                                 nsteps |-> R.nsteps, level |-> level2,
                                 simple |-> NoSimple]
                  /\ hQueueMutex = "free"
                  /\ hQueueMutex' = "render"
                  /\ rpc' = "base"
    /\ stack' = <<>>
    /\ NoCalls
    /\ UNCHANGED <<cfg, tiles, queueVars, bRunThread, bHoldThread,
                   loaderVars, histVars>>

\* frames in which the planet is outside the view cone: every camera
\* step and every level, and no tile is visited below the base tile
ProcessBaseCone == ProcessBase("cone")

RateInit == Init /\ ~cfg.preload

RateNext ==
    \/ \E level \in RenderLevels, cstep \in CSteps : Render(level, cstep)
    \/ ProcessBaseCone
    \/ EndFrame

RateSpec == RateInit /\ [][RateNext]_vars

\* the last call was a Render call
Rendered == lastCall.op = "Render"

\* the camera step of the second call is at least that of the first
Ordered(c1, c2) == c1 # NaN /\ c2 # NaN /\ c1 <= c2

\* C11: the maxlevel of the rate limit is always within 5 ..
\* SURF_MAX_PATCHLEVEL, the level a frame uses is the least of the
\* requested level, maxlvl and maxlevel, and from one frame to the next
\* with a camera step at least as large maxlevel does not increase.
C11_RateLimit ==
    /\ [](Rendered =>
            /\ lastRet.maxlevel \in 5 .. SURF_MAX_PATCHLEVEL
            /\ lastRet.level = Min(Min(lastCall.level, maxlvl),
                                   lastRet.maxlevel)
            /\ tgtlvl = lastRet.level)
    /\ [][Rendered /\ Ordered(lastCall.cstep, lastCall'.cstep)
            => lastRet'.maxlevel <= lastRet.maxlevel]_vars

\* a frame whose level the rate limit alone has lowered, to its floor
C11_Witness ==
    /\ Rendered
    /\ lastRet.maxlevel = 5
    /\ lastCall.cstep > 2 ^ 9
    /\ lastCall.level > 5
    /\ tgtlvl = 5
    /\ rpc = "base"

\* the frame of the scenario: the camera direction has turned by 0.6 from
\* (1,0,0) to (cos 0.6, sin 0.6, 0) and level 12 is requested
Scenario3 == Rendered /\ lastCall.level = 12 /\ lastCall.cstep = Step06

\* C12 as stated: the loop doubles the limit 11 times and takes maxlevel
\* down to 3, and level 5 is used.
C12_AsStated ==
    Scenario3 =>
        /\ lastRet.nsteps = 11
        /\ lastRet.maxlevel = 3
        /\ lastRet.level = 5

\* C12 (amended): in the scenario the loop stops at its floor, after 9
\* doublings of the limit with maxlevel = 5, and the traversal uses
\* level 5.
C12_Scenario3 ==
    Scenario3 =>
        /\ lastRet.nsteps = 9
        /\ lastRet.maxlevel = 5
        /\ lastRet.level = 5
        /\ tgtlvl = 5

\* the frame of the scenario has begun its traversal
C12_Witness == Scenario3 /\ rpc = "base" /\ hQueueMutex = "render"

\* ------------------------------------------------------------------------
\* Frames of every level with their traversal, for a camera that is at
\* rest or turns fast

FewSteps == {0, MaxStep}

RenderInit == Init /\ ~cfg.preload

RenderNext ==
    \/ \E level \in RenderLevels, cstep \in FewSteps : Render(level, cstep)
    \/ \E o \in AllOutcomes : ProcessBase(o)
    \/ \E o \in AllOutcomes, a \in FreedRefs \cup {NoAlias} :
           ProcessChild(o, a)
    \/ EndFrame

RenderSpec == RenderInit /\ [][RenderNext]_vars

\* the last Render call had a final level of 4 or less
SimplePath == Rendered /\ lastRet.level <= 4

\* C13: a Render call whose final level is 4 or less draws
\* patchidx[level] - patchidx[level-1] base tiles through RenderSimple (one
\* tile for level 3) and returns: it does not take the queue mutex, calls
\* neither ProcessTile nor LoadTileAsync and changes no descriptor and no
\* queue entry; ProcessTile runs in frames of a level above 4 only.
C13_SimplePath ==
    /\ [](SimplePath =>
            /\ lastRet.simple.level = lastRet.level
            /\ lastRet.simple.ndraw =
                   patchidx[lastRet.level] - patchidx[lastRet.level - 1]
            /\ lastRet.level = 3 => lastRet.simple.ndraw = 1
            /\ rpc = "idle"
            /\ hQueueMutex = "free"
            /\ stack = <<>>
            /\ lastReq = NoReq
            /\ draw = NoDraw
            /\ delLog = {})
    /\ [](rpc # "idle" => tgtlvl > 4 /\ lastRet.simple = NoSimple)
    /\ [][rpc = "idle" /\ SimplePath'
            => UNCHANGED <<tiles, queueVars, hQueueMutex, nAcc, rpc>>]_vars

\* a frame of level 3 after a frame that has left requests in the queue
C13_Witness ==
    /\ SimplePath
    /\ lastRet.level = 3
    /\ lastRet.simple.ndraw = 1
    /\ nqueue > 0
    /\ \E n \in Nodes : Len(n) = 2 /\ tiles[n].live

\* ------------------------------------------------------------------------
\* Construction of a manager: the functions that fill tiledesc and the
\* static mesh templates.  lastCall holds the call that is made, lastRet
\* the members it has written.

\* the base resolution levels a manager is constructed with
MaxBaseLvl == 8

BaseLevels == 1 .. MaxBaseLvl

\* the indices of the base descriptors: i < patchidx[maxbaselvl]
BaseTiles(maxbaselvl) == 0 .. (patchidx[maxbaselvl] - 1)

\* no <planet>_lmask.bin is found
NoFile == [minres |-> 0, stride |-> 0]

\* the flag words a mask file holds
TFlags == <<1, 3, 4, 258, 7, 0>>

\* the mask files: tflag[k] runs through TFlags in steps of stride
MaskFiles == { [minres |-> m, stride |-> s] : m \in {1, 5}, s \in 0 .. 2 }

TFlag(file, k) == TFlags[((k * file.stride) % Len(TFlags)) + 1]

\* number of tiles before i whose flag asks for a mask texture
MasksBefore(flag, i) ==
    Cardinality({ j \in DOMAIN flag : j < i /\ WantsMask(flag[j]) })

\* faulty variant of LoadPatchData: the global switches are not tested
LoadPatchData_Switches(in) ==
    LET tiles0 == BaseTiles(in.maxbaselvl)
    IN IF in.file = NoFile
       THEN [ret |-> FALSE, flag |-> [i \in tiles0 |-> 1], nmask |-> 0]
       ELSE LET first == patchidx[in.file.minres - 1]
                flag == [i \in tiles0 |->
                            IF i < first THEN 1
                            ELSE TFlag(in.file, i - first) % 256]
            IN [ret |-> TRUE, flag |-> flag,
                nmask |-> MasksBefore(flag, patchidx[in.maxbaselvl])]

\* TileManager::LoadPatchData: the flags of the base tiles and nmask
LoadPatchData(in) ==
    LET tiles0 == BaseTiles(in.maxbaselvl)
    IN IF ~(in.bGlobalSpecular \/ in.bGlobalLights) \/ in.file = NoFile
       THEN [ret |-> FALSE, flag |-> [i \in tiles0 |-> 1], nmask |-> 0]
       ELSE LET first == patchidx[in.file.minres - 1]
                flag == [i \in tiles0 |->
                            IF i < first THEN 1
                            ELSE TFlag(in.file, i - first) % 256]
            IN [ret |-> TRUE, flag |-> flag,
                nmask |-> MasksBefore(flag, patchidx[in.maxbaselvl])]

\* the flag of a base tile after the loop body of lines 429-434
MaskedFlag(f, in) ==
    LET f1 == IF in.bGlobalLights THEN f ELSE ClrBit(f, 4)
    IN IF in.bGlobalSpecular THEN f1 ELSE SetBit(ClrBit(f1, 2), 1)

\* TileManager::LoadSpecularMasks; n is the number of textures the texture
\* manager reads from <planet>_lmask.tex, nload the number it is asked for
LoadSpecularMasks(S, in, n) ==
    LET tiles0 == BaseTiles(in.maxbaselvl)
    IN IF S.nmask = 0
       THEN [S EXCEPT !.op = "LoadSpecularMasks"]
       ELSE IF n = 0 \/ n < S.nmask
       THEN [S EXCEPT !.op = "LoadSpecularMasks", !.nload = S.nmask,
                      !.nmask = 0, !.flag = [i \in tiles0 |-> 1]]
       ELSE [S EXCEPT !.op = "LoadSpecularMasks", !.nload = S.nmask,
                      !.ltex = [i \in tiles0 |->
                                   IF WantsMask(S.flag[i])
                                      /\ MasksBefore(S.flag, i) < S.nmask
                                   THEN Handle(3, MasksBefore(S.flag, i))
                                   ELSE S.ltex[i]],
                      !.flag = [i \in tiles0 |->
                                   MaskedFlag(
                                       IF WantsMask(S.flag[i])
                                          /\ MasksBefore(S.flag, i) >= S.nmask
                                       THEN 1 ELSE S.flag[i], in)]]

\* the calls of LoadPatchData that are tried
PatchCalls ==
    { [op |-> "LoadPatchData", maxbaselvl |-> l, bGlobalSpecular |-> s,
       bGlobalLights |-> g, file |-> f] :
        l \in BaseLevels, s \in BOOLEAN, g \in BOOLEAN,
        f \in MaskFiles \cup {NoFile} }

CallLoadPatchData ==
    /\ lastCall.op = "LoadPatchData"
    /\ lastRet = NoRet
    /\ LET R == LoadPatchData(lastCall)
       IN lastRet' = [op |-> "LoadPatchData", ret |-> R.ret,
                      flag |-> R.flag, nmask |-> R.nmask, nload |-> 0,
                      ltex |-> [i \in BaseTiles(lastCall.maxbaselvl) |-> 0]]
    /\ UNCHANGED <<mainVars, lastCall>>

CallLoadSpecularMasks(n) ==
    /\ lastRet.op = "LoadPatchData"
    /\ n \in {0, lastRet.nmask - 1, lastRet.nmask}
    /\ n >= 0
    /\ lastRet.nmask = 0 => n = 0
    /\ lastRet' = LoadSpecularMasks(lastRet, lastCall, n)
    /\ UNCHANGED <<mainVars, lastCall>>

\* faulty variant of LowerLevel: the level is lowered once at most
LowerLevel_Once(ntex, S) ==
    IF ntex < patchidx[S.maxbaselvl]
    THEN [maxbaselvl |-> S.maxbaselvl - 1, maxlvl |-> S.maxbaselvl - 1]
    ELSE S

\* line 299: while (ntex < patchidx[maxbaselvl]) maxlvl = --maxbaselvl
RECURSIVE LowerLevel(_, _)
LowerLevel(ntex, S) ==
    IF ntex < patchidx[S.maxbaselvl]
    THEN LowerLevel(ntex, [maxbaselvl |-> S.maxbaselvl - 1,
                           maxlvl |-> S.maxbaselvl - 1])
    ELSE S

\* line 300: the number of textures kept after the surplus is released
RECURSIVE ReleaseSurplus(_, _)
ReleaseSurplus(ntex, maxbaselvl) ==
    IF ntex > patchidx[maxbaselvl]
    THEN ReleaseSurplus(ntex - 1, maxbaselvl)
    ELSE ntex

\* TileManager::LoadTextures up to the preload (lines 289-309); in.n is
\* the number of textures the archive <planet>.tex yields, texbuf[i] is
\* Handle(0, i)
LoadBaseTextures(in) ==
    LET tiles0 == BaseTiles(in.maxbaselvl)
    IN IF in.n # 0
       THEN LET S == LowerLevel(in.n, [maxbaselvl |-> in.maxbaselvl,
                                       maxlvl |-> in.maxlvl])
                ntex == ReleaseSurplus(in.n, S.maxbaselvl)
            IN [maxbaselvl |-> S.maxbaselvl, maxlvl |-> S.maxlvl,
                ntex |-> ntex, released |-> ntex .. (in.n - 1),
                bNoTextures |-> FALSE,
                tex |-> [i \in tiles0 |->
                            IF i < patchidx[S.maxbaselvl]
                            THEN Handle(0, i) ELSE 0]]
       ELSE [maxbaselvl |-> in.maxbaselvl, maxlvl |-> in.maxlvl,
             ntex |-> 0, released |-> {}, bNoTextures |-> TRUE,
             tex |-> [i \in tiles0 |-> 0]]

\* the calls of LoadTextures that are tried: every base level, with a
\* higher maxlvl for level 8, and every length of the archive
TextureCalls ==
    { c \in [op : {"LoadTextures"}, maxbaselvl : BaseLevels,
             maxlvl : BaseLevels \cup {maxlvl},
             n : 0 .. patchidx[MaxBaseLvl]] :
        /\ c.n <= patchidx[c.maxbaselvl]
        /\ c.maxlvl = c.maxbaselvl
               \/ (c.maxbaselvl = MaxBaseLvl /\ c.maxlvl = maxlvl) }

CallLoadTextures ==
    /\ lastCall.op = "LoadTextures"
    /\ lastRet = NoRet
    /\ LET R == LoadBaseTextures(lastCall)
       IN lastRet' = [op |-> "LoadTextures", maxbaselvl |-> R.maxbaselvl,
                      maxlvl |-> R.maxlvl, ntex |-> R.ntex,
                      released |-> R.released,
                      bNoTextures |-> R.bNoTextures, tex |-> R.tex]
    /\ UNCHANGED <<mainVars, lastCall>>

\* the number of TOC records of the files that are tried
MaxRecords == 3

\* faulty variant of compare_idx: the order is reversed
compare_idx_Reversed(el1, el2) ==
    IF el1.ofs > el2.ofs THEN -1 ELSE IF el1.ofs < el2.ofs THEN 1 ELSE 0

\* compare_idx: IDXLIST elements are ordered by ofs
compare_idx(el1, el2) ==
    IF el1.ofs < el2.ofs THEN -1 ELSE IF el1.ofs > el2.ofs THEN 1 ELSE 0

\* the results qsort can give for idxlist: its permutations that are in
\* the order of compare_idx; the order of equal elements is unspecified
Qsorts(idxlist) ==
    LET I == DOMAIN idxlist
    IN { [i \in I |-> idxlist[p[i]]] :
           p \in { q \in [I -> I] :
                     /\ \A a, b \in I : a # b => q[a] # q[b]
                     /\ \A a, b \in I :
                            a < b => compare_idx(idxlist[q[a]],
                                                 idxlist[q[b]]) <= 0 } }

\* lines 206-207 and 214-215: the loop that writes the indices, for one
\* of the fields sidx and midx; vals[r] is the field of record r
RECURSIVE AssignIndices(_, _, _)
AssignIndices(vals, idxlist, i) ==
    IF i \in DOMAIN idxlist /\ idxlist[i].ofs # NOTILE
    THEN AssignIndices([vals EXCEPT ![idxlist[i].idx] = i], idxlist, i + 1)
    ELSE vals

\* lines 201-204: idxlist for the field with values vals
IdxList(vals) == [i \in DOMAIN vals |-> [idx |-> i, ofs |-> vals[i]]]

\* TileManager::LoadTileData, lines 199-221: the conversion of the texture
\* offsets of the TOC to indices; qs and qm are the sorted lists
ConvertOffsets(in, qs, qm) ==
    IF in.bPreloadTile /\ in.tilever >= 1
    THEN [sidx |-> AssignIndices(in.sidx, qs, 0),
          midx |-> AssignIndices(in.midx, qm, 0),
          tilever |-> 0]
    ELSE [sidx |-> in.sidx, midx |-> in.midx, tilever |-> in.tilever]

\* the surface and mask offsets of the TOC records that are tried
SurfOffsets == {0, TILESIZE, 2 * TILESIZE, NOTILE}

MaskOffsets == {0, TILESIZE \div 2, NOTILE}

\* the calls of LoadTileData that are tried: TOC files of up to
\* MaxRecords records, old-style and new-style, preload on and off
TileDataCalls ==
    UNION { [op : {"LoadTileData"}, bPreloadTile : BOOLEAN,
             tilever : {0, 1},
             sidx : [0 .. (n - 1) -> SurfOffsets],
             midx : [0 .. (n - 1) -> MaskOffsets]] : n \in 1 .. MaxRecords }

CallLoadTileData ==
    /\ lastCall.op = "LoadTileData"
    /\ lastRet = NoRet
    /\ \E qs \in Qsorts(IdxList(lastCall.sidx)),
          qm \in Qsorts(IdxList(lastCall.midx)) :
          LET R == ConvertOffsets(lastCall, qs, qm)
          IN lastRet' = [op |-> "LoadTileData", sidx |-> R.sidx,
                         midx |-> R.midx, tilever |-> R.tilever]
    /\ UNCHANGED <<mainVars, lastCall>>

\* faulty variant of NSeg: every strip has bseg segments
NSeg_Full(reduce, bseg, i) == bseg

\* lines 1046 and 1088: the number of segments of strip i
NSeg(reduce, bseg, i) == IF reduce THEN bseg - i ELSE bseg

\* lines 1043-1081: the number n of vertices the node loop writes
RECURSIVE VtxLoop(_, _, _, _, _)
VtxLoop(i, n, res, bseg, reduce) ==
    IF i <= res
    THEN LET nseg == NSeg(reduce, bseg, i)
         IN VtxLoop(i + 1, IF nseg >= 0 THEN n + nseg + 1 ELSE n,
                    res, bseg, reduce)
    ELSE n

\* lines 1090-1098: the indices written for segments j .. nseg-1 of a strip
RECURSIVE StripIdx(_, _, _, _, _)
StripIdx(j, nseg, nofs0, nofs1, reduce) ==
    IF j < nseg
    THEN <<nofs0 + j, nofs1 + j, nofs0 + j + 1>>
         \o (IF reduce /\ j = nseg - 1
             THEN <<>>
             ELSE <<nofs0 + j + 1, nofs1 + j, nofs1 + j + 1>>
                  \o StripIdx(j + 1, nseg, nofs0, nofs1, reduce))
    ELSE <<>>

\* lines 1087-1100: the indices the face loop writes from strip i on, in
\* the order of Idx[n++], as the values before their conversion to WORD
RECURSIVE IdxLoop(_, _, _, _, _)
IdxLoop(i, nofs0, res, bseg, reduce) ==
    IF i < res
    THEN LET nseg == NSeg(reduce, bseg, i)
             nofs1 == nofs0 + nseg + 1
         IN StripIdx(0, nseg, nofs0, nofs1, reduce)
            \o IdxLoop(i + 1, nofs1, res, bseg, reduce)
    ELSE <<>>

\* lines 1101-1103: the swap of Idx[i+1] and Idx[i+2] for i = 0, 3, ...
\* below nIdx/3 when the patch is seen from inside; Idx[p] is Idx[p + 1]
\* of the model
SwapInside(Idx, nIdx) ==
    [k \in DOMAIN Idx |->
        LET p == k - 1
        IN IF p % 3 = 1 /\ p - 1 < nIdx \div 3 /\ k + 1 \in DOMAIN Idx
           THEN Idx[k + 1]
           ELSE IF p % 3 = 2 /\ p - 2 < nIdx \div 3
           THEN Idx[k - 1]
           ELSE Idx[k]]

\* TileManager::CreateSpherePatch: the sizes of the two arrays that are
\* allocated and what the loops write to them; the coordinates of the
\* vertices are left out
CreateSpherePatch(in) ==
    LET bseg == IF in.bseg < 0 \/ in.ilat = in.nlat - 1
                THEN (in.nlat - in.ilat) * in.res
                ELSE in.bseg
        nVtx == IF in.reduce
                THEN (bseg + 1) * (in.res + 1) - ((in.res + 1) * in.res) \div 2
                ELSE (bseg + 1) * (in.res + 1)
        nIdx == (IF in.reduce THEN in.res * (2 * bseg - in.res)
                 ELSE 2 * in.res * bseg) * 3
        Idx == IdxLoop(0, 0, in.res, bseg, in.reduce)
    IN [bseg |-> bseg, nVtx |-> nVtx, nIdx |-> nIdx,
        vtxWritten |-> VtxLoop(0, 0, in.res, bseg, in.reduce),
        Idx |-> IF in.outside THEN Idx ELSE SwapInside(Idx, nIdx)]

SP(nlng, nlat, ilat, res, bseg, reduce, outside) ==
    [op |-> "CreateSpherePatch", nlng |-> nlng, nlat |-> nlat,
     ilat |-> ilat, res |-> res, bseg |-> bseg, reduce |-> reduce,
     outside |-> outside]

\* nlng8 and res8 of GlobalInit
nlng8 == <<32, 32, 30, 28, 24, 18, 12, 6>>

res8 == <<15, 15, 16, 12, 12, 12, 12, 12>>

\* 2^k
RECURSIVE Pow2(_)
Pow2(k) == IF k = 0 THEN 1 ELSE 2 * Pow2(k - 1)

\* lines 803-815: the calls for the templates of level lvl >= 9
HighCalls(lvl) ==
    LET mult == Pow2(lvl - 8)
    IN { SP(nlng8[i + 1] * mult, 8 * mult, i * mult + j, 12, res8[i + 1],
            FALSE, TRUE) : i \in 0 .. 7, j \in 0 .. (mult - 1) }

\* the CreateSpherePatch calls of GlobalInit (lines 781-815).  The
\* declaration with the default arguments is not part of the file: an
\* omitted bseg is -1 or is overwritten by line 1014, an omitted reduce or
\* outside is tried with both values.
SphereCalls ==
    { SP(4, 1, 0, 18, -1, r, o) : r \in BOOLEAN, o \in BOOLEAN }
    \cup { SP(8, 2, 0, 10, 16, r, o) : r \in BOOLEAN, o \in BOOLEAN }
    \cup { SP(4, 2, 1, 12, -1, r, o) : r \in BOOLEAN, o \in BOOLEAN }
    \cup UNION { { SP(16, 4, 0, 12, 12, FALSE, o),
                   SP(16, 4, 1, 12, 12, FALSE, o),
                   SP(12, 4, 2, 10, 16, TRUE, o),
                   SP(6, 4, 3, 12, -1, TRUE, o) } : o \in BOOLEAN }
    \cup { SP(32, 8, 0, 12, 15, FALSE, TRUE),
           SP(32, 8, 1, 12, 15, FALSE, TRUE),
           SP(30, 8, 2, 12, 16, FALSE, TRUE),
           SP(28, 8, 3, 12, 12, FALSE, TRUE),
           SP(24, 8, 4, 12, 12, FALSE, TRUE),
           SP(18, 8, 5, 12, 12, FALSE, TRUE),
           SP(12, 8, 6, 10, 16, TRUE, TRUE),
           SP(6, 8, 7, 12, -1, TRUE, TRUE) }
    \cup UNION { HighCalls(lvl) : lvl \in 9 .. SURF_MAX_PATCHLEVEL }

CallCreateSpherePatch ==
    /\ lastCall.op = "CreateSpherePatch"
    /\ lastRet = NoRet
    /\ LET R == CreateSpherePatch(lastCall)
       IN lastRet' = [op |-> "CreateSpherePatch", bseg |-> R.bseg,
                      nVtx |-> R.nVtx, nIdx |-> R.nIdx,
                      vtxWritten |-> R.vtxWritten, Idx |-> R.Idx]
    /\ UNCHANGED <<mainVars, lastCall>>

\* every call that is tried, made once on a manager under construction
ConstructCalls ==
    PatchCalls \cup TextureCalls \cup TileDataCalls \cup SphereCalls

ConstructInit ==
    /\ InitManager
    /\ ~cfg.preload
    /\ lastCall \in ConstructCalls
    /\ lastRet = NoRet

ConstructNext ==
    \/ CallLoadPatchData
    \/ \E n \in 0 .. patchidx[MaxBaseLvl] : CallLoadSpecularMasks(n)
    \/ CallLoadTextures
    \/ CallLoadTileData
    \/ CallCreateSpherePatch

ConstructSpec == ConstructInit /\ [][ConstructNext]_vars

\* LoadPatchData is called without a mask file or with specular
\* reflections and city lights both disabled
NoMaskData ==
    /\ lastCall.op = "LoadPatchData"
    /\ lastCall.file = NoFile
           \/ ~(lastCall.bGlobalSpecular \/ lastCall.bGlobalLights)

\* C14: without <planet>_lmask.bin, or with specular reflections and city
\* lights both disabled, LoadPatchData returns false with nmask = 0 and
\* flag = 1 for every base tile, and LoadSpecularMasks after it reads no
\* mask texture and gives none to any base tile.
C14_NoMaskData ==
    NoMaskData /\ lastRet # NoRet =>
        /\ lastRet.ret = FALSE
        /\ lastRet.nmask = 0
        /\ lastRet.nload = 0
        /\ \A i \in BaseTiles(lastCall.maxbaselvl) :
               lastRet.flag[i] = 1 /\ lastRet.ltex[i] = 0

\* the 501 base tiles of level 8 after LoadSpecularMasks, when the mask
\* file is there and the two switches are off
C14_Witness ==
    /\ NoMaskData
    /\ lastCall.file # NoFile
    /\ lastCall.maxbaselvl = 8
    /\ lastRet.op = "LoadSpecularMasks"
    /\ Cardinality(DOMAIN lastRet.flag) = 501

\* LoadTextures has run
TexturesLoaded == lastCall.op = "LoadTextures" /\ lastRet # NoRet

\* C15: when the archive yields n > 0 textures, LoadTextures ends with
\* maxbaselvl the largest level up to the requested one with
\* patchidx[maxbaselvl] <= n (and maxlvl equal to it if it was lowered),
\* ntex = patchidx[maxbaselvl], the n - ntex surplus textures released and
\* tiledesc[i].tex = texbuf[i] for exactly the i < ntex; 137 textures for
\* level 8 give maxbaselvl = 7 and ntex = 137.  With n = 0 bNoTextures is
\* set and no texture is assigned.
C15_ShortArchive ==
    TexturesLoaded =>
        /\ lastCall.n > 0 =>
            /\ lastRet.maxbaselvl \in 1 .. lastCall.maxbaselvl
            /\ patchidx[lastRet.maxbaselvl] <= lastCall.n
            /\ lastRet.maxbaselvl < lastCall.maxbaselvl =>
                   /\ patchidx[lastRet.maxbaselvl + 1] > lastCall.n
                   /\ lastRet.maxlvl = lastRet.maxbaselvl
            /\ lastRet.maxbaselvl = lastCall.maxbaselvl =>
                   lastRet.maxlvl = lastCall.maxlvl
            /\ lastRet.ntex = patchidx[lastRet.maxbaselvl]
            /\ lastRet.released = lastRet.ntex .. (lastCall.n - 1)
            /\ ~lastRet.bNoTextures
            /\ \A i \in BaseTiles(lastCall.maxbaselvl) :
                   lastRet.tex[i] =
                       IF i < lastRet.ntex THEN Handle(0, i) ELSE 0
        /\ lastCall.n = 137 /\ lastCall.maxbaselvl = 8 =>
               lastRet.maxbaselvl = 7 /\ lastRet.ntex = 137
        /\ lastCall.n = 0 =>
            /\ lastRet.bNoTextures
            /\ \A i \in BaseTiles(lastCall.maxbaselvl) : lastRet.tex[i] = 0

\* an archive of 140 textures for level 8: the level is lowered to 7 and
\* three textures are released
C15_Witness ==
    /\ TexturesLoaded
    /\ lastCall.maxbaselvl = 8
    /\ lastCall.n = 140
    /\ lastRet.maxbaselvl = 7
    /\ lastRet.maxlvl = 7
    /\ lastRet.released = {137, 138, 139}

\* the TOC of a new-style file has been converted for the preload
Converted ==
    /\ lastCall.op = "LoadTileData"
    /\ lastRet # NoRet
    /\ lastCall.bPreloadTile
    /\ lastCall.tilever >= 1

\* the records of the file whose field is not NOTILE
Present(vals) == { r \in DOMAIN vals : vals[r] # NOTILE }

\* the values of a field are 0 .. k-1, each in one record, NOTILE is kept
\* and the order of the offsets is the order of the indices
DenseIndices(old, new, k) ==
    /\ \A r \in DOMAIN old : old[r] = NOTILE => new[r] = NOTILE
    /\ \A v \in 0 .. (k - 1) :
           Cardinality({ r \in Present(old) : new[r] = v }) = 1
    /\ \A r \in Present(old) : new[r] \in 0 .. (k - 1)
    /\ \A a, b \in Present(old) : old[a] < old[b] => new[a] < new[b]

\* number of different offsets in a field
Unique(vals) == Cardinality({ vals[r] : r \in Present(vals) })

\* C16 as stated: after the conversion the sidx values other than NOTILE
\* are 0 .. k-1, each once, for k the number of unique surface offsets of
\* the file, and the same for midx.
C16_AsStated ==
    Converted =>
        /\ DenseIndices(lastCall.sidx, lastRet.sidx, Unique(lastCall.sidx))
        /\ DenseIndices(lastCall.midx, lastRet.midx, Unique(lastCall.midx))

\* C16 (amended): after the conversion the sidx values other than NOTILE
\* are 0 .. k-1, each once, for k the number of records whose surface
\* offset is not NOTILE; NOTILE is kept, a smaller offset gets a smaller
\* index, tilever is 0, and the same holds for midx.  k is the number of
\* unique offsets if no two records share an offset.
C16_Conversion ==
    Converted =>
        /\ DenseIndices(lastCall.sidx, lastRet.sidx,
                        Cardinality(Present(lastCall.sidx)))
        /\ DenseIndices(lastCall.midx, lastRet.midx,
                        Cardinality(Present(lastCall.midx)))
        /\ lastRet.tilever = 0
        /\ Unique(lastCall.sidx) = Cardinality(Present(lastCall.sidx))
               => DenseIndices(lastCall.sidx, lastRet.sidx,
                               Unique(lastCall.sidx))
        /\ Unique(lastCall.midx) = Cardinality(Present(lastCall.midx))
               => DenseIndices(lastCall.midx, lastRet.midx,
                               Unique(lastCall.midx))

\* a converted file whose records were not in the order of their offsets,
\* with a record without surface texture
C16_Witness ==
    /\ Converted
    /\ DOMAIN lastCall.sidx = 0 .. 2
    /\ lastCall.sidx[0] = 2 * TILESIZE
    /\ lastCall.sidx[1] = NOTILE
    /\ lastCall.sidx[2] = 0
    /\ lastRet.sidx[0] = 1
    /\ lastRet.sidx[1] = NOTILE
    /\ lastRet.sidx[2] = 0
    /\ lastRet.midx # lastCall.midx

\* CreateSpherePatch has run
PatchCreated == lastCall.op = "CreateSpherePatch" /\ lastRet # NoRet

\* C17: for every call of GlobalInit CreateSpherePatch allocates and
\* writes nVtx = (bseg+1)*(res+1) vertices, less res*(res+1)/2 with
\* reduce, and nIdx = 3*2*res*bseg indices, or 3*res*(2*bseg-res) with
\* reduce, and every index written is in 0 .. nVtx-1 and below 2^16; the
\* level-8 template of ilat = 0 has 208 vertices and 1080 indices.
C17_SpherePatch ==
    PatchCreated =>
        LET res == lastCall.res
            bseg == lastRet.bseg
        IN /\ lastRet.nVtx =
                  IF lastCall.reduce
                  THEN (bseg + 1) * (res + 1) - (res * (res + 1)) \div 2
                  ELSE (bseg + 1) * (res + 1)
           /\ lastRet.vtxWritten = lastRet.nVtx
           /\ lastRet.nIdx =
                  IF lastCall.reduce THEN 3 * res * (2 * bseg - res)
                  ELSE 3 * 2 * res * bseg
           /\ Len(lastRet.Idx) = lastRet.nIdx
           /\ \A k \in DOMAIN lastRet.Idx :
                  /\ lastRet.Idx[k] \in 0 .. (lastRet.nVtx - 1)
                  /\ lastRet.Idx[k] < 65536
           /\ lastCall.nlng = 32 /\ lastCall.nlat = 8 /\ lastCall.ilat = 0
                  => /\ bseg = 15
                     /\ lastRet.nVtx = 208
                     /\ lastRet.nIdx = 1080

\* a reduced template of level 8 whose last index is its last vertex
C17_Witness ==
    /\ PatchCreated
    /\ lastCall.nlat = 8
    /\ lastCall.ilat = 7
    /\ lastCall.reduce
    /\ lastRet.bseg = 12
    /\ lastRet.nVtx = 91
    /\ \E k \in DOMAIN lastRet.Idx : lastRet.Idx[k] = lastRet.nVtx - 1

\* ------------------------------------------------------------------------
\* Properties of the publication and of the descent

\* the step is a publication of the loader
PublishStep == nPub' = nPub + 1

\* C18: a publication is one step of the loader while it holds the queue
\* mutex: td gets the textures read, its flag loses bits 0x80 and 0x40 and
\* keeps bits 0-5, nqueue is decremented and queue_out advanced modulo
\* MAXQUEUE; no other descriptor and no queue entry changes.
C18_Publication ==
    [][PublishStep =>
        /\ lpc = "apply"
        /\ lpc' = "sleep"
        /\ hQueueMutex = "free"
        /\ hQueueMutex' = "free"
        /\ rpc' = rpc
        /\ nqueue' = nqueue - 1
        /\ queue_out' = (queue_out + 1) % MAXQUEUE
        /\ queue_in' = queue_in
        /\ loadqueue' = loadqueue
        /\ \A n \in Nodes :
               (qd.st # "ok" \/ n # qd.td) => tiles'[n] = tiles[n]
        /\ qd.st = "ok" =>
               /\ tiles'[qd.td].tex = ld.tex
               /\ tiles'[qd.td].ltex = ld.mask
               /\ ~HasBit(tiles'[qd.td].flag, 128)
               /\ ~HasBit(tiles'[qd.td].flag, 64)
               /\ tiles'[qd.td].flag = tiles[qd.td].flag % 64
               /\ tiles'[qd.td].live = tiles[qd.td].live
               /\ tiles'[qd.td].cat = tiles[qd.td].cat]_vars

\* a descriptor with flag bits 0 and 1 has been published with both
\* textures while another request stays queued
C18_Witness ==
    /\ nPub > 0
    /\ nqueue > 0
    /\ lpc = "sleep"
    /\ \E n \in Nodes :
           /\ tiles[n].cat
           /\ PreLoad(n).flag = 3 + 64 + 128
           /\ tiles[n].flag = 3
           /\ IsHandle(tiles[n].tex)
           /\ IsHandle(tiles[n].ltex)

\* the descriptor whose child slot holds descriptor n
Parent(n) == SubSeq(n, 1, Len(n) - 1)

\* the descriptors the pending requests point to
QueuedTiles ==
    { loadqueue[j].td :
        j \in { k \in { (i + queue_out) % MAXQUEUE : i \in 0 .. (nqueue - 1) } :
                  loadqueue[k].st = "ok" } }

\* a request is made only for a child that is not loaded, by a parent that is
RequestRule ==
    lastReq'.called =>
        /\ tiles[lastReq'.td].live
        /\ NotLoaded(tiles[lastReq'.td].flag)
        /\ ~NotLoaded(tiles[Parent(lastReq'.td)].flag)

\* every queued descriptor has a loaded parent
QueuedUnderLoaded ==
    \A n \in QueuedTiles : ~NotLoaded(tiles[Parent(n)].flag)

\* a descriptor holds a texture of its own only below a loaded parent
TopDown ==
    \A n \in Nodes :
        n # Root /\ tiles[n].live /\ IsHandle(tiles[n].tex)
            => ~NotLoaded(tiles[Parent(n)].flag)

\* C19, the request rule alone: every call of LoadTileAsync made during the
\* descent is for a child with flag 0x80 set whose parent has flag 0x80 clear.
C19_RequestRule == [][RequestRule]_vars

\* C19, as stated: in every state each descriptor in the load queue has a
\* parent whose flag 0x80 is clear, and each descriptor that has got a texture
\* of its own has a parent whose flag 0x80 is clear (top-down loading).
C19_AsStated == QueuedUnderLoaded /\ TopDown

\* C19, the same restricted to the descriptors of the catalogue, the only ones
\* LoadTileAsync is ever called for.
C19_Catalogue ==
    /\ \A n \in QueuedTiles :
           tiles[n].cat => ~NotLoaded(tiles[Parent(n)].flag)
    /\ \A n \in Nodes :
           n # Root /\ tiles[n].live /\ tiles[n].cat /\ IsHandle(tiles[n].tex)
               => ~NotLoaded(tiles[Parent(n)].flag)

\* a child of a tile the loader has published is requested in its turn
C19_Witness ==
    /\ lastReq.called
    /\ lastReq.ok
    /\ Len(lastReq.td) = 2
    /\ tiles[lastReq.td].cat
    /\ ~NotLoaded(tiles[Parent(lastReq.td)].flag)
    /\ nPub > 0

\* a step of the descent into the next child slot of the innermost call
DescendStep == rpc = "tree" /\ stack # <<>> /\ stack' # stack

\* the descriptor position of that child slot
SlotChild == Child(stack[Len(stack)].node, stack[Len(stack)].idx)

\* C20, as stated: when the descent reaches a child slot whose descriptor does
\* not exist, the descriptor exists afterwards and its flag is 0x80.
C20_AsStated ==
    [][DescendStep /\ ~tiles[SlotChild].live
          => tiles'[SlotChild].live /\ tiles'[SlotChild].flag = 128]_vars

\* C20, amended: when the descent reaches a child slot whose descriptor does
\* not exist, the descriptor exists afterwards and is zeroed: flag 0 (0x80 not
\* set), no texture, no mask; no load is requested in that step, and no other
\* descriptor comes into existence.
C20_NewDescriptor ==
    [][DescendStep /\ ~tiles[SlotChild].live
          => /\ tiles'[SlotChild] = ZeroDesc
             /\ ~NotLoaded(tiles'[SlotChild].flag)
             /\ ~lastReq'.called
             /\ \A n \in Nodes \ {SlotChild} :
                    tiles'[n].live => tiles[n].live]_vars

\* the descent has just created a descriptor below a catalogue tile
C20_Witness ==
    /\ rpc = "tree"
    /\ \E n \in Nodes :
           /\ n # Root
           /\ tiles[n].live
           /\ ~tiles[n].cat
           /\ tiles[n].flag = 0
           /\ tiles[Parent(n)].cat
           /\ NotLoaded(tiles[Parent(n)].flag)

\* ------------------------------------------------------------------------
\* Properties of the recursion

\* the parent's sub-UV quadrant of the child slot the descent is at, with
\* the textures the parent was traversed with
SlotRange ==
    LET top == stack[Len(stack)]
    IN SubRange(top.cur, 1 - (top.idx \div 2), top.idx % 2)

\* the child of the slot exists, has flag 0x80 clear and a non-null tex
SlotFull ==
    /\ tiles[SlotChild].live
    /\ ~NotLoaded(tiles[SlotChild].flag)
    /\ tiles[SlotChild].tex # 0

\* the child's own textures with the full range
SlotOwn == TexSet(tiles[SlotChild], SlotChild)

\* the recursive call has gone on to subdivide the child
Descended == Len(stack') = Len(stack) + 1

\* what the recursive call did with its current texture set (it drew with
\* it or handed it down) shows the set to be cur, and what it did with its
\* backup set (the coarse draw) shows that set to be bkp
CalledWith(cur, bkp) ==
    /\ draw'.on /\ ~draw'.coarse => draw'.ts = cur
    /\ draw'.on /\ draw'.coarse => draw'.ts = bkp
    /\ Descended => stack'[Len(stack')].cur = cur

\* C21, as stated: a child with flag 0x80 clear and a non-null tex is
\* traversed with its own textures and the full range as both the current and
\* the backup set; any other child with the parent's sub-UV quadrant and the
\* parent's current textures as both.
C21_AsStated ==
    [][DescendStep =>
          IF SlotFull THEN CalledWith(SlotOwn, SlotOwn)
          ELSE CalledWith(SlotRange, SlotRange)]_vars

\* C21, amended: a child with flag 0x80 clear and a non-null tex is traversed
\* with its own textures and the full range as the current set and with the
\* parent's sub-UV quadrant and the parent's current textures as the backup
\* set; any other child with the parent's quadrant and textures as both.
C21_Recursion ==
    [][DescendStep =>
          IF SlotFull THEN CalledWith(SlotOwn, SlotRange)
          ELSE CalledWith(SlotRange, SlotRange)]_vars

\* a loaded child with a texture of its own has been drawn coarsely
C21_Witness ==
    /\ draw.on
    /\ draw.coarse
    /\ draw.node # Root
    /\ LoadedTex(tiles[draw.node])
    /\ draw.ts.owner = Parent(draw.node)
    /\ draw.ts.k = 1

\* ------------------------------------------------------------------------
\* Properties of the descriptor tree

\* the catalogue record behind tree position n: 0 when the catalogue
\* declares no child (subidx = 0) somewhere on the way from the base tile
RECURSIVE RecordOf(_)
RecordOf(n) ==
    IF n = Root THEN 0
    ELSE LET p == RecordOf(Parent(n))
         IN IF Len(n) > 1 /\ p = 0 THEN 0
            ELSE TFS[p].subidx[n[Len(n)] + 1]

\* the catalogue declares a non-zero child offset for the slot of n
Declared(n) == RecordOf(n) # 0

Subtiles == { n \in Nodes \ {Root} : tiles[n].live }

\* no frame has been rendered yet
Constructed == tgtlvl = 0

\* C22, as stated: in every state a subtile descriptor exists only where the
\* catalogue declares a non-zero child offset.
C22_AsStated == \A n \in Subtiles : Declared(n)

\* C22, amended: a freshly constructed manager holds subtile descriptors
\* only where the catalogue declares a child, and in every state a descriptor
\* that is not loaded (flag 0x80), the only kind a load is requested for,
\* exists only where the catalogue declares a child. The traversal does
\* create descriptors in undeclared slots (the witness).
C22_Declared ==
    /\ Constructed => \A n \in Subtiles : Declared(n)
    /\ \A n \in Subtiles : NotLoaded(tiles[n].flag) => Declared(n)

\* the traversal has created a descriptor in a slot the catalogue declares
\* no child for
C22_Witness ==
    /\ ~Constructed
    /\ \E n \in Subtiles : ~Declared(n) /\ Declared(Parent(n)) /\ Len(n) = 2

\* ------------------------------------------------------------------------
\* The traversal alone, with the outcome of the visibility tests of each
\* ProcessTile call kept as history

TracedCall(tile, outcome) ==
    /\ lastCall' = [op |-> "ProcessTile", tile |-> tile, outcome |-> outcome]
    /\ UNCHANGED lastRet

TracedBase(outcome) == TraverseBase(outcome) /\ TracedCall(Root, outcome)

TracedChild(outcome, alias) ==
    TraverseChild(outcome, alias) /\ TracedCall(SlotChild, outcome)

TraceNext ==
    \/ \E level \in Levels : BeginFrame(level)
    \/ \E o \in AllOutcomes : TracedBase(o)
    \/ \E o \in AllOutcomes, a \in FreedRefs \cup {NoAlias} : TracedChild(o, a)
    \/ EndFrame

TraceSpec == Init /\ [][TraceNext]_vars

\* a step that is a ProcessTile call, and the tile it is called for
TileStep == rpc = "base" \/ DescendStep

TheTile == IF rpc = "base" THEN Root ELSE SlotChild

\* the descriptors below descriptor n
Below(n) == Subtree(n) \ {n}

\* no descriptor of the subtree of n holds a non-zero texture word
NoTexIn(n) == \A m \in Subtree(n) : tiles[m].live => tiles[m].tex = 0

\* the step draws nothing and does not subdivide
Returns == ~draw'.on /\ Len(stack') <= Len(stack)

\* the call enqueues nothing: the one request the step may hold is the
\* caller's request for the tile itself, made before the call
NoEnqueue ==
    /\ lastReq'.called => lastReq'.td = TheTile
    /\ nqueue' = nqueue + (IF lastReq'.called /\ lastReq'.ok THEN 1 ELSE 0)

\* DeleteSubTiles has been applied to the tile: below it exactly the
\* descriptors whose subtree held no texture word are gone, and nothing
\* else has changed
SubTilesDeleted ==
    /\ \A n \in Below(TheTile) :
           tiles[n].live =>
               IF NoTexIn(n) THEN ~tiles'[n].live ELSE tiles'[n] = tiles[n]
    /\ \A n \in Nodes \ Subtree(TheTile) : tiles'[n] = tiles[n]
    /\ tiles'[TheTile].live

\* no descriptor is deleted
NothingDeleted ==
    /\ delLog' = {}
    /\ \A n \in Nodes : tiles[n].live => tiles'[n] = tiles[n]

\* C23: a ProcessTile call whose tile fails the frustum test applies
\* DeleteSubTiles to the tile and returns without drawing, subdividing or
\* enqueuing; a call whose tile fails the cone test returns without deleting,
\* drawing or enqueuing; and no other step of the traversal deletes a
\* descriptor.
C23_Culling ==
    [][TileStep =>
          /\ lastCall'.outcome = "frustum"
                => Returns /\ NoEnqueue /\ SubTilesDeleted
          /\ lastCall'.outcome = "cone"
                => Returns /\ NoEnqueue /\ NothingDeleted
          /\ lastCall'.outcome # "frustum" => NothingDeleted]_vars

\* a tile has failed the frustum test and lost a descriptor below it, while
\* another descriptor below it was kept
C23_Witness ==
    /\ lastCall.op = "ProcessTile"
    /\ lastCall.outcome = "frustum"
    /\ \E e \in delLog : e.del
    /\ \E e \in delLog : ~e.del

\* ------------------------------------------------------------------------
\* Properties of the NOTILE records

\* the descriptors made from a catalogue record, once loaded
LoadedCat == { n \in Subtiles : tiles[n].cat /\ ~NotLoaded(tiles[n].flag) }

\* a loaded descriptor of a record with sidx = NOTILE has no surface texture
C24_Surface ==
    \A n \in LoadedCat : TFS[RecordOf(n)].sidx = NOTILE => tiles[n].tex = 0

\* a loaded descriptor of a record with midx = NOTILE has no mask texture
C24_Mask ==
    \A n \in LoadedCat : TFS[RecordOf(n)].midx = NOTILE => tiles[n].ltex = 0

\* C24, as stated: a descriptor made from a record whose sidx (midx) is
\* NOTILE has, after the async load or the preload pass, the no-texture value
\* in tex (ltex).
C24_AsStated == C24_Surface /\ C24_Mask

\* a descriptor of a record with sidx = NOTILE has been loaded by the loader
\* thread
C24_Witness ==
    /\ ~cfg.preload
    /\ \E n \in LoadedCat :
           /\ TFS[RecordOf(n)].sidx = NOTILE
           /\ TFS[RecordOf(n)].midx = NOTILE
           /\ tiles[n].tex = 0

\* ------------------------------------------------------------------------
\* Hold and teardown: the loader thread statement by statement, with
\* TileBuffer::HoldThread, TileBuffer::ShutDown and TileBuffer::~TileBuffer
\* called by the render thread between frames

\* faulty variant of Skips: the hold flag is ignored
Skips_Never(hold) == FALSE

\* line 1369: if (bHoldThread) continue;
Skips(hold) == hold

\* faulty variant of Leaves: the stop flag is ignored
Leaves_Never(run) == FALSE

\* line 1368: if (!bRunThread) return 0;
Leaves(run) == ~run

\* WaitForSingleObject (hQueueMutex, INFINITE) returns: the mutex is free,
\* or its handle has been closed and the wait fails at once
Waited(mutex) == CanLock(mutex) \/ mutex = "closed"

\* lines 1364-1368: the loop test, the Sleep and the test of the stop flag
T_Wake ==
    /\ lpc = "sleep"
    /\ lpc' = IF Leaves(bRunThread) THEN "exit" ELSE "awake"
    /\ NoCalls
    /\ UNCHANGED <<cfg, callVars, tiles, queueVars, hQueueMutex, bRunThread,
                   bHoldThread, qd, ld, renderVars, histVars>>

\* line 1369: the test of the hold flag; history: the last iteration that
\* was skipped, with the queue length and the publications at that time
T_Hold ==
    /\ lpc = "awake"
    /\ lpc' = IF Skips(bHoldThread) THEN "sleep" ELSE "wait"
    /\ lastCall' = IF bHoldThread
                    THEN [op |-> "skip", nqueue |-> nqueue, nPub |-> nPub]
                    ELSE lastCall
    /\ lastRet' = [op |-> "iteration", held |-> bHoldThread]
    /\ NoCalls
    /\ UNCHANGED <<cfg, tiles, queueVars, hQueueMutex, bRunThread,
                   bHoldThread, qd, ld, renderVars, histVars>>

\* lines 1371-1376: the copy of the head request inside the mutex
T_CopyOut ==
    /\ lpc = "wait"
    /\ Waited(hQueueMutex)
    /\ qd' = IF nqueue > 0 THEN loadqueue[queue_out] ELSE qd
    /\ lpc' = IF nqueue > 0 THEN "read" ELSE "sleep"
    /\ NoCalls
    /\ UNCHANGED <<cfg, callVars, tiles, queueVars, hQueueMutex, bRunThread,
                   bHoldThread, ld, renderVars, histVars>>

\* lines 1415-1421: the publication inside the mutex
T_Publish ==
    /\ lpc = "apply"
    /\ Waited(hQueueMutex)
    /\ tiles' = IF qd.st = "ok" /\ tiles[qd.td].live
                THEN [tiles EXCEPT ![qd.td] = Published(@, ld.tex, ld.mask)]
                ELSE tiles
    /\ nqueue' = nqueue - 1
    /\ queue_out' = (queue_out + 1) % MAXQUEUE
    /\ lpc' = "sleep"
    /\ nPub' = nPub + 1
    /\ lastPub' = qd.id
    /\ ld' = NoLoad
    /\ NoCalls
    /\ UNCHANGED <<cfg, callVars, loadqueue, queue_in, hQueueMutex, bRunThread,
                   bHoldThread, qd, renderVars, nAcc>>

\* the loader thread runs no more
Stopped == lpc \in {"exit", "killed"}

\* TileBuffer::ShutDown: TerminateThread (hLoadThread, 0)
ShutDown ==
    /\ rpc = "idle"
    /\ lpc # "killed"
    /\ lpc' = "killed"
    /\ NoCalls
    /\ UNCHANGED <<cfg, callVars, tiles, queueVars, hQueueMutex, bRunThread,
                   bHoldThread, qd, ld, renderVars, histVars>>

\* ~TileBuffer, line 1209: bRunThread = false
D_Stop ==
    /\ rpc = "idle"
    /\ bRunThread' = FALSE
    /\ rpc' = "stopping"
    /\ NoCalls
    /\ UNCHANGED <<cfg, callVars, tiles, queueVars, hQueueMutex, bHoldThread,
                   loaderVars, tgtlvl, stack, histVars>>

\* ~TileBuffer, line 1212: CloseHandle (hQueueMutex)
D_Close ==
    /\ rpc = "stopping"
    /\ hQueueMutex' = "closed"
    /\ rpc' = "closing"
    /\ NoCalls
    /\ UNCHANGED <<cfg, callVars, tiles, queueVars, bRunThread, bHoldThread,
                   loaderVars, tgtlvl, stack, histVars>>

\* ~TileBuffer, lines 1214-1217: TerminateThread unless ShutDown has done it
D_Terminate ==
    /\ rpc = "closing"
    /\ lpc' = "killed"
    /\ rpc' = "terminated"
    /\ NoCalls
    /\ UNCHANGED <<cfg, callVars, tiles, queueVars, hQueueMutex, bRunThread,
                   bHoldThread, qd, ld, tgtlvl, stack, histVars>>

\* ~TileBuffer, lines 1219-1229: the textures of the loaded descriptors are
\* released and every descriptor of the pool is deleted
D_Delete ==
    /\ rpc = "terminated"
    /\ tiles' = [n \in Nodes |-> IF n = Root THEN tiles[n] ELSE NoDesc]
    /\ rpc' = "deleted"
    /\ NoCalls
    /\ UNCHANGED <<cfg, callVars, queueVars, hQueueMutex, bRunThread,
                   bHoldThread, loaderVars, tgtlvl, stack, histVars>>

\* the frames of a camera that sees the base tile and its children, and
\* archive reads that succeed
T_Base == ProcessBase("down")

T_Child == ProcessChild("draw", NoAlias)

T_Read == \E f \in ReadValues : L_Read(TRUE, TRUE, f)

StopNext ==
    \/ BeginFrame(maxlvl)
    \/ T_Base
    \/ T_Child
    \/ EndFrame
    \/ \E b \in BOOLEAN : HoldThread(b)
    \/ T_Wake
    \/ T_Hold
    \/ T_CopyOut
    \/ T_Read
    \/ T_Publish
    \/ ShutDown
    \/ D_Stop
    \/ D_Close
    \/ D_Terminate
    \/ D_Delete

StopSpec == LiveInit /\ [][StopNext]_vars

\* the loader begins a request: it copies the queue head out
BeginsRequest == lpc = "wait" /\ lpc' = "read"

\* the loader is inside an iteration, past the test of the stop flag
InIteration == lpc \in {"awake", "wait", "read", "apply"}

\* C25, as stated: once bRunThread is false the loader performs no further
\* copy-out of the queue head.
C25_AsStated == [][~bRunThread => ~BeginsRequest]_vars

\* C25, amended: an iteration that tests bRunThread after it was set to false
\* begins nothing, the thread returns; once the thread is at the Sleep with
\* the flag false it never enters an iteration again, so at most the one
\* iteration that had passed the test before goes on; the thread returns by
\* itself only when stopped; and when the destructor deletes the descriptors
\* the thread has returned or has been terminated.
C25_Stop ==
    /\ [][lpc = "sleep" /\ ~bRunThread /\ lpc' # lpc
            => lpc' \in {"exit", "killed"} /\ qd' = qd]_vars
    /\ [](lpc = "sleep" /\ ~bRunThread => [](~InIteration))
    /\ [](lpc = "exit" => ~bRunThread)
    /\ [](rpc \in {"terminated", "deleted"} => Stopped)

\* the thread has returned by itself, leaving a pending request alone
C25_Witness ==
    /\ lpc = "exit"
    /\ nqueue > 0
    /\ rpc = "stopping"

\* no descriptor of the pool is left
PoolEmpty == \A n \in Nodes \ {Root} : ~tiles[n].live

\* C26, as stated: the queue mutex is closed only after the loader thread has
\* stopped and the descriptors have been released, so the loader is never at
\* a wait for the closed mutex.
C26_AsStated == hQueueMutex = "closed" => Stopped /\ PoolEmpty

\* the mutex is closed and the loader, still running, is at one of its waits
\* for it
C26_Witness ==
    /\ hQueueMutex = "closed"
    /\ lpc \in {"wait", "apply"}
    /\ ~PoolEmpty

\* the loader's test of the hold flag finds it set
HeldIteration == lpc = "awake" /\ bHoldThread /\ lpc' # lpc

\* the pending requests are the accepted, unpublished ones in their order
ServedInOrder ==
    /\ lastPub = nPub
    /\ \A i \in 1 .. nqueue : PendingIds[i] = nPub + i

\* C27: an iteration whose test of the hold flag finds it set is skipped: the
\* thread goes back to its Sleep without taking the mutex, copying a request
\* out or publishing; the iterations that do reach the mutex have found the
\* flag clear, and nqueue decreases only by the publication of such an
\* iteration; the pending requests keep their order and are published in it
\* once hold is cleared.
C27_Hold ==
    /\ [][HeldIteration =>
            /\ lpc' \in {"sleep", "killed"}
            /\ UNCHANGED <<qd, ld, tiles, queueVars, hQueueMutex, histVars>>]_vars
    /\ [](lpc \in {"wait", "read", "apply"}
            => lastRet.op = "iteration" /\ ~lastRet.held)
    /\ [][nqueue' < nqueue
            => lpc = "apply" /\ ~lastRet.held /\ nqueue' = nqueue - 1]_vars
    /\ []ServedInOrder

\* an iteration was skipped with a request pending, hold has been cleared
\* and the request has been published
C27_Witness ==
    /\ lastCall.op = "skip"
    /\ lastCall.nqueue > 0
    /\ nPub > lastCall.nPub
    /\ ~bHoldThread
    /\ bRunThread

\* ------------------------------------------------------------------------
\* The descriptor pool (TileBuffer::buf, nbuf, nused, last): AddTile and the
\* release of a descriptor by DeleteTile as functions of the pool, applied
\* one after the other to a pool that starts empty

\* the pool is not filled beyond this number of descriptors
MaxUsed == 18

\* number of slots the pool grows by (AddTile, line 1261)
PoolStep == 16

\* an empty slot of buf
NoTile == [ofs |-> -1]

\* the pool after TileBuffer::TileBuffer
EmptyPool == [buf |-> <<>>, nbuf |-> 0, nused |-> 0, last |-> 0]

\* buf[j] of pool P; buf is kept as a sequence, slot j at position j + 1
Slot(P, j) == P.buf[j + 1]

\* memset (td, 0, sizeof(TILEDESC)); td->ofs = slot
NewTile(slot) == [ofs |-> slot, flag |-> 0, tex |-> 0, ltex |-> 0]

\* the first i of the scan for (i = 0; i < nbuf; i++) with an empty
\* buf[(i+last)%nbuf]; nbuf if there is none
RECURSIVE Scan(_, _)
Scan(P, i) ==
    IF i = P.nbuf THEN i
    ELSE IF Slot(P, (i + P.last) % P.nbuf) = NoTile THEN i
    ELSE Scan(P, i + 1)

\* faulty variant of TileBuffer_AddTile: the scan for an empty slot is left
\* out, the descriptor goes to the slot after the last one used
TileBuffer_AddTile_NoScan(P) ==
    LET grow == P.nused = P.nbuf
        buf1 == IF grow
                THEN P.buf \o [j \in 1 .. PoolStep |-> NoTile]
                ELSE P.buf
        nbuf1 == IF grow THEN P.nbuf + PoolStep ELSE P.nbuf
        last1 == IF grow THEN P.nused ELSE (P.last + 1) % P.nbuf
        td == NewTile(last1)
    IN [pool |-> [buf |-> [buf1 EXCEPT ![last1 + 1] = td],
                  nbuf |-> nbuf1,
                  nused |-> P.nused + 1,
                  last |-> last1],
        td |-> td]

\* TileBuffer::AddTile on pool P: the new pool and the descriptor returned
TileBuffer_AddTile(P) ==
    LET grow == P.nused = P.nbuf
        buf1 == IF grow
                THEN P.buf \o [j \in 1 .. PoolStep |-> NoTile]
                ELSE P.buf
        nbuf1 == IF grow THEN P.nbuf + PoolStep ELSE P.nbuf
        i == Scan(P, 0)
        last1 == IF grow THEN P.nused
                 ELSE IF i = P.nbuf THEN P.last
                 ELSE (i + P.last) % P.nbuf
        td == NewTile(last1)
    IN [pool |-> [buf |-> [buf1 EXCEPT ![last1 + 1] = td],
                  nbuf |-> nbuf1,
                  nused |-> P.nused + 1,
                  last |-> last1],
        td |-> td]

\* TileBuffer::DeleteTile, lines 1314-1317, for the descriptor tile:
\* buf[tile->ofs] = 0; delete tile; nused--
TileBuffer_Release(P, tile) ==
    [P EXCEPT !.buf[tile.ofs + 1] = NoTile, !.nused = @ - 1]

\* the slots whose descriptors get deleted again
DelSlots == {0, 1, 15, 16}

CallAddTile ==
    /\ lastRet.pool.nused < MaxUsed
    /\ LET R == TileBuffer_AddTile(lastRet.pool)
       IN /\ lastCall' = [op |-> "AddTile", pool |-> lastRet.pool]
          /\ lastRet' = [op |-> "AddTile", pool |-> R.pool, td |-> R.td]
    /\ UNCHANGED mainVars

CallDeleteTile(j) ==
    /\ j < lastRet.pool.nbuf
    /\ Slot(lastRet.pool, j) # NoTile
    /\ lastCall' = [op |-> "DeleteTile", pool |-> lastRet.pool,
                    tile |-> Slot(lastRet.pool, j)]
    /\ lastRet' = [op |-> "DeleteTile",
                   pool |-> TileBuffer_Release(lastRet.pool,
                                               Slot(lastRet.pool, j))]
    /\ UNCHANGED mainVars

PoolInit ==
    /\ InitManager
    /\ ~cfg.preload
    /\ lastCall = [op |-> "TileBuffer"]
    /\ lastRet = [op |-> "TileBuffer", pool |-> EmptyPool]

PoolNext ==
    \/ CallAddTile
    \/ \E j \in DelSlots : CallDeleteTile(j)

PoolSpec == PoolInit /\ [][PoolNext]_vars

\* C28: AddTile returns a descriptor with every field zero but ofs; ofs is
\* the index of the slot that holds the descriptor after the call; that slot
\* was empty (or did not exist) before; the pool has grown by 16 slots if
\* nused = nbuf held and is as long as before otherwise; nused is one more;
\* and no other slot has changed.
C28_AddTile ==
    lastCall.op = "AddTile" =>
        LET P == lastCall.pool
            Q == lastRet.pool
            td == lastRet.td
        IN /\ td.flag = 0 /\ td.tex = 0 /\ td.ltex = 0
           /\ td.ofs >= 0 /\ td.ofs < Q.nbuf
           /\ Slot(Q, td.ofs) = td
           /\ td.ofs < P.nbuf => Slot(P, td.ofs) = NoTile
           /\ Q.nbuf = IF P.nused = P.nbuf THEN P.nbuf + PoolStep ELSE P.nbuf
           /\ Len(Q.buf) = Q.nbuf
           /\ Q.nused = P.nused + 1
           /\ \A j \in 0 .. (Q.nbuf - 1) :
                  j # td.ofs =>
                      Slot(Q, j) = IF j < P.nbuf THEN Slot(P, j) ELSE NoTile

\* AddTile's scan has wrapped around and filled a hole before the last slot
\* used, in a pool that did not grow
C28_Witness ==
    /\ lastCall.op = "AddTile"
    /\ lastCall.pool.nused < lastCall.pool.nbuf
    /\ lastRet.td.ofs < lastCall.pool.last
    /\ lastRet.pool.nbuf = lastCall.pool.nbuf

\* ------------------------------------------------------------------------
\* Properties of the queue and the deletions

\* the ring positions of the pending requests
PendingSlots == { (i + queue_out) % MAXQUEUE : i \in 0 .. (nqueue - 1) }

\* C29, as stated: no descriptor a pending request points to, and none the
\* loader has copied out and not yet published, has been deleted.
C29_AsStated ==
    /\ \A j \in PendingSlots : loadqueue[j].st # "freed"
    /\ InFlight => qd.st # "freed"

\* the loader is about to read the flag and the texture words of a
\* descriptor that DeleteTile has freed
C29_Witness ==
    /\ lpc = "read"
    /\ qd.st = "freed"
    /\ \E e \in delLog : e.del /\ e.n = qd.td

\* C30: the ring buffer. nqueue is between 0 and MAXQUEUE, queue_in and
\* queue_out are ring positions, queue_in is nqueue positions after
\* queue_out, and the nqueue entries from queue_out on hold the accepted
\* requests that are not yet published, in the order of their acceptance.
C30_Ring ==
    /\ nqueue \in 0 .. MAXQUEUE
    /\ queue_in \in 0 .. (MAXQUEUE - 1)
    /\ queue_out \in 0 .. (MAXQUEUE - 1)
    /\ queue_in = (queue_out + nqueue) % MAXQUEUE
    /\ nAcc = nPub + nqueue
    /\ \A i \in 1 .. nqueue :
           /\ loadqueue[(queue_out + i - 1) % MAXQUEUE].st # "null"
           /\ loadqueue[(queue_out + i - 1) % MAXQUEUE].id = nPub + i

\* the ring is full and has wrapped around: the oldest pending request sits
\* behind the newest
C30_Witness ==
    /\ nqueue = MAXQUEUE
    /\ queue_out = queue_in
    /\ queue_out > 0
    /\ nPub > 0

\* ------------------------------------------------------------------------
\* The descriptor pool together with the tree of subtile pointers.
\* tiles holds the subtile pointers (tiles[n].live: the pointer of n's
\* parent to n is not NULL) and the fields of the descriptors; lastRet
\* holds the pool: pool.buf says which slots are taken, ofs[n] is the field
\* ofs of descriptor n, who[j] the descriptor buf[j] points to, and heap the
\* descriptors that are allocated (new TILEDESC) and not deleted.

NoPlaces == [x \in {} |-> 0]

\* tile->subtile[idx] = tilebuf->AddTile() for the child slot n, on
\* S = [pool, ofs, who, heap]: buf[last] = td; td->ofs = last
Place(S, n) ==
    LET R == TileBuffer_AddTile(S.pool)
    IN [pool |-> R.pool,
        ofs |-> (n :> R.td.ofs) @@ S.ofs,
        who |-> (R.td.ofs :> n) @@ S.who,
        heap |-> S.heap \cup {n}]

\* the descriptors below n that AddSubtileData has made, in the order of
\* their AddTile calls: a descriptor before its subtiles, subtiles by index
RECURSIVE Catalogue(_, _)
Catalogue(t, n) ==
    LET Sub(i) == IF Len(n) < maxlvl - STARTLVL /\ t[Child(n, i)].live
                  THEN <<Child(n, i)>> \o Catalogue(t, Child(n, i))
                  ELSE <<>>
    IN Sub(0) \o Sub(1) \o Sub(2) \o Sub(3)

RECURSIVE PlaceAll(_, _)
PlaceAll(S, seq) ==
    IF seq = <<>> THEN S
    ELSE PlaceAll(Place(S, Head(seq)), Tail(seq))

\* function f without the argument x
Without(f, x) == [y \in DOMAIN f \ {x} |-> f[y]]

\* buf[tile->ofs] = 0; delete tile; nused-- for every descriptor of the set
\* freed
RECURSIVE ReleaseAll(_, _)
ReleaseAll(S, freed) ==
    IF freed = {} THEN S
    ELSE LET n == CHOOSE x \in freed : TRUE
         IN ReleaseAll([pool |-> TileBuffer_Release(S.pool,
                                                    [ofs |-> S.ofs[n]]),
                        ofs |-> Without(S.ofs, n),
                        who |-> Without(S.who, S.ofs[n]),
                        heap |-> S.heap \ {n}],
                       freed \ {n})

\* the descriptors the calls of log have freed
Freed(log) == { e.n : e \in { x \in log : x.del } }

\* the pool part of lastRet
ThePool == [pool |-> lastRet.pool, ofs |-> lastRet.ofs,
            who |-> lastRet.who, heap |-> lastRet.heap]

\* number of ProcessTile calls followed
MaxCalls == 9

\* next: the child slot of the base tile the traversal visits next;
\* calls: the number of ProcessTile calls so far
Returned(S, next, calls) ==
    [op |-> "ProcessTile", pool |-> S.pool, ofs |-> S.ofs, who |-> S.who,
     heap |-> S.heap, next |-> next, calls |-> calls]

treeVars == <<cfg, queueVars, hQueueMutex, bRunThread, bHoldThread,
              loaderVars, renderVars, histVars, lastReq, delLog, draw>>

\* the empty child slots of tile p, by index
MissingChildren(t, p) ==
    LET Sub(i) == IF t[Child(p, i)].live THEN <<>> ELSE <<Child(p, i)>>
    IN Sub(0) \o Sub(1) \o Sub(2) \o Sub(3)

RECURSIVE AddTiles(_, _)
AddTiles(t, seq) ==
    IF seq = <<>> THEN t
    ELSE AddTiles(AddTile(t, Head(seq)), Tail(seq))

\* ProcessTile for the base tile, outside the frustum (line 567):
\* DeleteSubTiles (tile), between two traversals of its children
CullBase ==
    /\ lastRet.next = 0
    /\ lastRet.calls < MaxCalls
    /\ LET R == DeleteSubTiles(tiles, Root)
       IN /\ tiles' = R.t
          /\ lastCall' = [op |-> "ProcessTile", tile |-> Root,
                          outcome |-> "frustum", log |-> R.log]
          /\ lastRet' = Returned(ReleaseAll(ThePool, Freed(R.log)), 0,
                               lastRet.calls + 1)
    /\ UNCHANGED treeVars

\* one turn of the loop of lines 609-635 in ProcessTile for the base tile:
\* the child slot gets a descriptor if it is empty, and ProcessTile for the
\* child finds it outside the frustum (DeleteSubTiles), steps down (its
\* empty child slots get descriptors, which are tiles of the last level)
\* or renders it
VisitChild(outcome) ==
    LET c == Child(Root, lastRet.next)
        new == IF tiles[c].live THEN <<>> ELSE <<c>>
        t1 == AddTiles(tiles, new)
        S1 == PlaceAll(ThePool, new)
        subs == IF outcome = "down" THEN MissingChildren(t1, c) ELSE <<>>
        R == IF outcome = "frustum" THEN DeleteSubTiles(t1, c)
             ELSE [t |-> AddTiles(t1, subs), log |-> {}]
    IN /\ lastRet.calls < MaxCalls
       /\ tiles' = R.t
       /\ lastCall' = [op |-> "ProcessTile", tile |-> c,
                       outcome |-> outcome, log |-> R.log]
       /\ lastRet' = Returned(ReleaseAll(PlaceAll(S1, subs), Freed(R.log)),
                              (lastRet.next + 1) % NSUB,
                              lastRet.calls + 1)
       /\ UNCHANGED treeVars

TreeInit ==
    /\ InitManager
    /\ lastCall = [op |-> "TileBuffer"]
    /\ lastRet = Returned(PlaceAll([pool |-> EmptyPool, ofs |-> NoPlaces,
                                    who |-> NoPlaces, heap |-> {}],
                                   Catalogue(tiles, Root)),
                          0, 0)

TreeNext ==
    \/ CullBase
    \/ \E o \in LiveOutcomes : VisitChild(o)

TreeSpec == TreeInit /\ [][TreeNext]_vars

\* the slots of buf that are not empty
UsedSlots(P) == { j \in 0 .. (P.nbuf - 1) : Slot(P, j) # NoTile }

\* C31: the descriptor pool. nused is the number of non-empty slots and at
\* most nbuf; every allocated descriptor d has its field ofs inside buf and
\* buf[d.ofs] points to d, so no two descriptors share a slot; and every
\* subtile pointer that is not NULL points to an allocated descriptor.
C31_Pool ==
    LET P == lastRet.pool
    IN /\ Len(P.buf) = P.nbuf
       /\ P.nused = Cardinality(UsedSlots(P))
       /\ P.nused <= P.nbuf
       /\ \A d \in lastRet.heap :
              /\ lastRet.ofs[d] \in UsedSlots(P)
              /\ lastRet.who[lastRet.ofs[d]] = d
       /\ \A d \in lastRet.heap : \A e \in lastRet.heap :
              d # e => lastRet.ofs[d] # lastRet.ofs[e]
       /\ \A n \in Nodes \ {Root} : tiles[n].live => n \in lastRet.heap

\* DeleteTile has returned false for a tile after it freed one of the
\* tile's children, in a pool that has grown twice
C31_Witness ==
    /\ lastCall.op = "ProcessTile"
    /\ lastCall.outcome = "frustum"
    /\ lastRet.pool.nbuf = 2 * PoolStep
    /\ \E e \in lastCall.log : \E f \in lastCall.log :
           /\ ~e.del
           /\ f.del
           /\ Len(f.n) = Len(e.n) + 1
           /\ IsPrefix(e.n, f.n)

\* ------------------------------------------------------------------------
\* The life of a descriptor

\* a request for descriptor n is pending
Pending(n) == InWindow(loadqueue, queue_out, nqueue, n)

\* descriptor n is pending or no longer marked as not loaded
Settled(n) == tiles[n].live /\ (Pending(n) \/ ~NotLoaded(tiles[n].flag))

\* descriptor n is not marked as not loaded and has no pending request
Done(n) == tiles[n].live /\ ~NotLoaded(tiles[n].flag) /\ ~Pending(n)

\* the step is a publication of the loader
Publishes == nPub' = nPub + 1

\* C32: the not-loaded bit of a descriptor, once clear, stays clear as long
\* as the descriptor lives. LoadTileAsync is called only for a descriptor
\* with the bit set, and it accepts only one that has no pending request. A
\* descriptor that is pending or has the bit clear stays so until it is
\* deleted, so it is accepted at most once; a publication clears the bit
\* and ends the request, and a descriptor with the bit clear and no pending
\* request stays so, so it is published at most once.
C32_Monotone ==
    /\ [][\A n \in Nodes :
              tiles[n].live /\ ~NotLoaded(tiles[n].flag) /\ tiles'[n].live
                  => ~NotLoaded(tiles'[n].flag)]_vars
    /\ [][lastReq'.called => NotLoaded(tiles[lastReq'.td].flag)]_vars
    /\ [][lastReq'.ok => ~Pending(lastReq'.td)]_vars
    /\ [][\A n \in Nodes : Settled(n) /\ tiles'[n].live => Settled(n)']_vars
    /\ [][Publishes /\ qd.st = "ok" /\ tiles[qd.td].live
              => Pending(qd.td) /\ Done(qd.td)']_vars
    /\ [][\A n \in Nodes : Done(n) /\ tiles'[n].live => Done(n)']_vars

\* a descriptor of the catalogue that was requested and published is
\* visited by a later traversal, which makes no request for it
C32_Witness ==
    /\ ~cfg.preload
    /\ nPub > 0
    /\ rpc = "tree"
    /\ ~lastReq.called
    /\ \E n \in Nodes \ {Root} :
           /\ tiles[n].cat
           /\ Done(n)
           /\ draw.on
           /\ draw.node = n

\* ------------------------------------------------------------------------
\* Descriptors the traversal has created

\* descriptor n of t was made by AddTile in ProcessTile (line 616), not by
\* AddSubtileData
Lazy(t, n) == n # Root /\ t[n].live /\ ~t[n].cat

\* n or a tile above it is such a descriptor
BelowLazy(t, n) == \E m \in Nodes : IsPrefix(m, n) /\ Lazy(t, m)

\* LoadTileAsync is never called for a descriptor the traversal has created
C33_NoRequest == [][lastReq'.called => ~Lazy(tiles, lastReq'.td)]_vars

\* a descriptor the traversal has created has no texture of its own
C33_NoTexture == \A n \in Nodes : Lazy(tiles, n) => tiles[n].tex = 0

\* it and the tiles below it are rendered with the texture of a tile above
C33_Ancestor ==
    draw.on /\ BelowLazy(tiles, draw.node) =>
        /\ draw.ts.owner # draw.node
        /\ IsPrefix(draw.ts.owner, draw.node)
        /\ ~BelowLazy(tiles, draw.ts.owner)

\* DeleteTile deletes it and the tiles below it
C33_Deletable ==
    [][\A e \in delLog' : BelowLazy(tiles, e.n) => e.del]_vars

\* C33, as stated: a descriptor the traversal has created is never passed to
\* LoadTileAsync and never has a texture of its own; it and the tiles below
\* it are rendered with the texture of a tile above them, and DeleteTile
\* deletes them.
C33_AsStated ==
    /\ C33_NoRequest
    /\ []C33_NoTexture
    /\ []C33_Ancestor
    /\ C33_Deletable

\* the loader has published a texture into a descriptor the traversal has
\* created, and the traversal renders the tile with it
C33_Witness ==
    /\ nPub > 0
    /\ draw.on
    /\ Lazy(tiles, draw.node)
    /\ IsHandle(tiles[draw.node].tex)
    /\ draw.ts.owner = draw.node

\* ------------------------------------------------------------------------
\* The loop of Render over the base tiles (lines 507-534).  lastCall holds
\* the ProcessTile call in progress: its arguments lvl, hemisp, ilat, nlat,
\* ilng, nlng, the loop variables hemisp, ilat, ilng, idx of the call of
\* Render's loop it belongs to (base), and the level Render was called
\* with (req).

\* TileManager::NLAT
NLAT == [i \in 0 .. 8 |->
            CASE i = 0 -> 0 [] i = 6 -> 2 [] i = 7 -> 4 [] i = 8 -> 8
              [] OTHER -> 1]

\* TileManager::NLNG; NLNG[lvl][ilat + 1] is nlng[ilat]
NLNG == [i \in 5 .. 8 |->
            CASE i = 5 -> <<4>>
              [] i = 6 -> <<8, 4>>
              [] i = 7 -> <<16, 16, 12, 6>>
              [] OTHER -> <<32, 32, 30, 28, 24, 18, 12, 6>>]

\* int startlvl = min (level, 8)
StartLvl == Min(tgtlvl, STARTLVL)

\* faulty variant of Seek: the loop ends after the northern hemisphere
RECURSIVE Seek_North(_, _, _, _, _)
Seek_North(s, hemisp, ilat, ilng, idx) ==
    IF ~(hemisp < 1)
    THEN [hemisp |-> hemisp, ilat |-> ilat, ilng |-> ilng, idx |-> idx]
    ELSE IF ~(ilat >= 0)
    THEN Seek_North(s, hemisp + 1, NLAT[s] - 1, 0, idx)
    ELSE IF ~(ilng < NLNG[s][ilat + 1])
    THEN Seek_North(s, hemisp, ilat - 1, 0, idx)
    ELSE [hemisp |-> hemisp, ilat |-> ilat, ilng |-> ilng, idx |-> idx]

\* the three for loops of lines 508-531 from the tests of their conditions
\* on: the loop variables at the next ProcessTile call, or hemisp = 2 when
\* the loops have ended
RECURSIVE Seek(_, _, _, _, _)
Seek(s, hemisp, ilat, ilng, idx) ==
    IF ~(hemisp < 2)
    THEN [hemisp |-> hemisp, ilat |-> ilat, ilng |-> ilng, idx |-> idx]
    ELSE IF ~(ilat >= 0)
    THEN Seek(s, hemisp + 1, NLAT[s] - 1, 0, idx)
    ELSE IF ~(ilng < NLNG[s][ilat + 1])
    THEN Seek(s, hemisp, ilat - 1, 0, idx)
    ELSE [hemisp |-> hemisp, ilat |-> ilat, ilng |-> ilng, idx |-> idx]

\* the loop variables after the call in progress (idx++, ilng++), or at
\* the entry of the loops (hemisp = idx = 0, ilat = nlat-1, ilng = 0)
NextBase ==
    IF lastCall.op = "Render"
    THEN Seek(StartLvl, 0, NLAT[StartLvl] - 1, 0, 0)
    ELSE Seek(StartLvl, lastCall.base.hemisp, lastCall.base.ilat,
              lastCall.base.ilng + 1, lastCall.base.idx + 1)

loopVars == <<cfg, tiles, queueVars, bRunThread, bHoldThread, loaderVars,
              tgtlvl, stack, histVars, lastReq, delLog, draw, lastRet>>

\* lines 523-525: ProcessTile (startlvl, hemisp, ilat, nlat, ilng,
\* nlng[ilat], td+idx, ...)
BaseCall ==
    /\ rpc = "base"
    /\ lastCall.op \in {"Render", "ProcessTile"}
    /\ NextBase.hemisp < 2
    /\ lastCall' = [op |-> "ProcessTile",
                    lvl |-> StartLvl,
                    hemisp |-> NextBase.hemisp,
                    ilat |-> NextBase.ilat,
                    nlat |-> NLAT[StartLvl],
                    ilng |-> NextBase.ilng,
                    nlng |-> NLNG[StartLvl][NextBase.ilat + 1],
                    td |-> patchidx[StartLvl - 1] + NextBase.idx,
                    base |-> NextBase,
                    req |-> IF lastCall.op = "Render" THEN lastCall.level
                            ELSE lastCall.req]
    /\ UNCHANGED <<loopVars, rpc, hQueueMutex>>

\* lines 571 and 603-632: a ProcessTile call that steps down calls
\* ProcessTile (lvl+1, hemisp, ilat*2+i, nlat*2, ilng*2+j, nlng*2, subtile)
StepDown(i, j) ==
    /\ rpc = "base"
    /\ lastCall.op = "ProcessTile"
    /\ lastCall.lvl < tgtlvl
    /\ lastCall' = [lastCall EXCEPT !.lvl = @ + 1,
                                    !.ilat = @ * 2 + i,
                                    !.nlat = @ * 2,
                                    !.ilng = @ * 2 + j,
                                    !.nlng = @ * 2,
                                    !.td = NOTILE]
    /\ UNCHANGED <<loopVars, rpc, hQueueMutex>>

\* lines 532-538: the loops have ended; ReleaseMutex
EndLoop ==
    /\ rpc = "base"
    /\ lastCall.op = "ProcessTile"
    /\ ~(NextBase.hemisp < 2)
    /\ lastCall' = [op |-> "EndRender", startlvl |-> StartLvl,
                    idx |-> NextBase.idx, req |-> lastCall.req]
    /\ rpc' = "idle"
    /\ hQueueMutex' = "free"
    /\ UNCHANGED loopVars

LoopNext ==
    \/ \E level \in RenderLevels, cstep \in FewSteps : Render(level, cstep)
    \/ BaseCall
    \/ \E i \in 0 .. 1, j \in 0 .. 1 : StepDown(i, j)
    \/ EndLoop

LoopSpec == RenderInit /\ [][LoopNext]_vars

RECURSIVE Sum(_)
Sum(seq) == IF seq = <<>> THEN 0 ELSE Head(seq) + Sum(Tail(seq))

\* the base tiles of one hemisphere at level s
NHemisp(s) == Sum(NLNG[s])

\* the base tiles of one hemisphere at level s in the rows the loop visits
\* before row ilat
RowsBefore(s, ilat) == Sum(SubSeq(NLNG[s], ilat + 2, NLAT[s]))

\* the number of base descriptors of level s
NBase(s) == patchidx[s] - patchidx[s - 1]

\* the call in progress is one of Render's loop
IsBaseCall(call) == call.op = "ProcessTile" /\ call.td # NOTILE

\* C34: in a frame of final level 5 or more, the calls of Render's loop are
\* numbered idx = 0, 1, 2, ... without a gap; call idx is for the tile
\* (hemisp, ilat, ilng) that has idx tiles before it in the order north
\* before south, rows from nlat-1 down, ilng up, and for descriptor
\* patchidx[startlvl-1] + idx, which is a descriptor of level startlvl; at
\* the end of the loops idx is 2 * sum(NLNG[startlvl]) = patchidx[startlvl]
\* - patchidx[startlvl-1], that is 8, 24, 100, 364 for levels 5 to 8; and
\* the level of every ProcessTile call is from startlvl to the least of
\* the level asked for and SURF_MAX_PATCHLEVEL.
C34_BaseLoop ==
    /\ [](lastCall.op = "ProcessTile" =>
            LET s == StartLvl
                b == lastCall.base
            IN /\ tgtlvl >= 5
               /\ s = lastRet.level \/ (s = STARTLVL /\ lastRet.level > s)
               /\ b.hemisp \in 0 .. 1
               /\ b.ilat \in 0 .. (NLAT[s] - 1)
               /\ b.ilng \in 0 .. (NLNG[s][b.ilat + 1] - 1)
               /\ b.idx = b.hemisp * NHemisp(s) + RowsBefore(s, b.ilat)
                              + b.ilng
               /\ b.idx \in 0 .. (NBase(s) - 1)
               /\ b.hemisp = 0 <=> b.idx < NHemisp(s)
               /\ IsBaseCall(lastCall) =>
                      /\ lastCall.td = patchidx[s - 1] + b.idx
                      /\ lastCall.td \in patchidx[s - 1] .. (patchidx[s] - 1)
                      /\ lastCall.lvl = s
                      /\ lastCall.ilat = b.ilat /\ lastCall.ilng = b.ilng
                      /\ lastCall.hemisp = b.hemisp
               /\ lastCall.lvl >= s
               /\ lastCall.lvl <= Min(lastCall.req, SURF_MAX_PATCHLEVEL))
    /\ [](lastCall.op = "EndRender" =>
            /\ lastCall.idx = 2 * NHemisp(lastCall.startlvl)
            /\ lastCall.idx = NBase(lastCall.startlvl)
            /\ lastCall.idx = CASE lastCall.startlvl = 5 -> 8
                                [] lastCall.startlvl = 6 -> 24
                                [] lastCall.startlvl = 7 -> 100
                                [] OTHER -> 364)
    /\ [][IsBaseCall(lastCall') /\ lastCall' # lastCall =>
             lastCall'.base.idx = IF lastCall.op = "Render" THEN 0
                                  ELSE lastCall.base.idx + 1]_vars
    /\ [][lastCall'.op = "EndRender" /\ lastCall.op # "EndRender" =>
             /\ lastCall.op = "ProcessTile"
             /\ lastCall'.idx = lastCall.base.idx + 1]_vars

\* a frame of level 10 has made its last ProcessTile call, below the last
\* base tile of the southern hemisphere, and the loops have ended
C34_Witness ==
    /\ lastCall.op = "EndRender"
    /\ lastCall.startlvl = STARTLVL
    /\ lastCall.idx = 364
    /\ tgtlvl = maxlvl
    /\ rpc = "idle"

====
